---- MODULE Spec2Model ----
(***************************************************************************)
(* Model of the AI-ContentManager video workflow.                          *)
(*                                                                         *)
(*   - the project store and its repository (VideoProjectRepository),      *)
(*   - the REST handlers of dashboard/routers/video_projects.py that act   *)
(*     on projects, and the three background tasks they dispatch,          *)
(*   - the timing calculation of the two renderers.                        *)
(*                                                                         *)
(* Strings that the code builds by formatting (error messages, notes) are  *)
(* sequences of tokens, so that formatting is concatenation; every other   *)
(* string is a TLA+ string.  None is "None" for the plain strings and the  *)
(* empty sequence for error_message (every message the code writes is a    *)
(* prefixed f-string, hence non-empty).                                    *)
(***************************************************************************)
EXTENDS Integers, Sequences, FiniteSets, TLC

\* ------------------------------------------------------------------ bounds

\* Background tasks dispatched in one run.
MaxTasks == 2
\* Timing calculation: lines of a script, characters of a line, whole seconds
\* of narration.
MaxLines == 2
MaxLen == 2
MaxDur == 3
\* Text helpers: characters of a text to escape, characters of a text to
\* wrap, wrap width.
MaxEscapeLen == 3
MaxWrapLen == 5
MaxWidth == 4
\* Rendering: pose files handed to a renderer.  Uploads: asset rows stored.
MaxPoses == 3
MaxUploads == 2
\* Deletion: components of the path handed to delete_asset.
MaxPathLen == 3

\* ------------------------------------------------------------- the data

None == "None"
NoMessage == << >>

DRAFT == "draft"
APPROVED == "approved"
AUDIO_READY == "audio_ready"
RENDERING == "rendering"
COMPLETED == "completed"
FAILED == "failed"

VideoProjectStatus == {DRAFT, APPROVED, AUDIO_READY, RENDERING, COMPLETED, FAILED}

\* Ids of the video_projects table that the model follows.
ProjectIds == {1}
\* Ids a request may name (an id names no row while the store is empty).
RequestIds == {1}
\* Rows of the characters table, and the ids a create request may name.
Characters == {1, 2}
CharacterInputs == {<<1, 2>>, <<9, 2>>, <<1, 9>>}

\* script_json values: None, the empty dict {} (falsy), a dict that lacks the
\* keys the tasks read ("bad"), and well-formed scripts.
EmptyDict == "{}"
BadDict == "bad"
GeneratedScripts == {<<"A", "ta">>, <<"B", "tb">>}
UpdateScriptInputs == {<<EmptyDict, "ta">>, <<BadDict, "tb">>, <<"A", "tb">>}
ReviewerInputs == {"system", "admin"}
NotesInputs == {<< >>, <<"fix">>}

\* The outcome of an awaited call that raises instead of returning a script.
Raises == <<"raises", "">>

Falsy(x) == x \in {None, EmptyDict, ""}

VARIABLES
    rows,               \* video_projects: id -> row, for the ids that exist
    tasks,              \* background tasks, in dispatch order
    script_generator,   \* the module-level _script_generator singleton
    voiceover_service,  \* the module-level _voiceover_service singleton
    settings,           \* which API keys the configuration holds
    last,               \* the event of the step just taken (response or task step)
    script,             \* timing calculation: the dialogue lines
    total_duration,     \* timing calculation: the probed duration
    timings,            \* timing calculation: the result
    scene_durations,    \* timing calculation: the measured per-line audio segments
    arg_text,           \* text helpers: the text passed in
    arg_max_chars,      \* text helpers: the wrap width passed in
    text_out,           \* text helpers: which helper ran and what it returned
    character_assets,   \* render_video: {role: {pose: path}}, in insertion order
    music_path,         \* render_video: the music path, if any
    line_timings,       \* render_video: the windows passed to the command builder
    cmd,                \* render_video: the command built
    render,             \* render_video: how the call ended
    dirs,               \* assets: the character directories on disk
    files,              \* assets: the pose files on disk
    asset_rows,         \* character_assets table
    upload,             \* the upload request just answered
    disk,               \* delete_asset: the files that exist, by resolved path
    deleted             \* delete_asset: the call just made and how it ended

wfvars == <<rows, tasks, script_generator, voiceover_service, settings, last>>
timevars == <<script, total_duration, timings, scene_durations>>
xvars == <<arg_text, arg_max_chars, text_out>>
cvars == <<character_assets, music_path, line_timings, cmd, render>>
uvars == <<dirs, files, asset_rows, upload>>
dvars == <<disk, deleted>>
tvars == <<timevars, xvars, cvars, uvars, dvars>>
vars == <<wfvars, tvars>>

\* ------------------------------------------------------ the repository

NewProject ==
    [status |-> DRAFT, script_json |-> None, takeaway |-> None,
     voiceover_path |-> None, output_path |-> None,
     error_message |-> NoMessage, reviewed_by |-> None, reviewed_at |-> None]

Max(S) == CHOOSE x \in S : \A y \in S : y <= x

\* INTEGER PRIMARY KEY of the default SQLite store: largest id in use + 1.
NextId(db) == IF DOMAIN db = {} THEN 1 ELSE Max(DOMAIN db) + 1

create(db) ==
    [p \in DOMAIN db \cup {NextId(db)} |->
        IF p = NextId(db) THEN NewProject ELSE db[p]]

get_by_id(db, project_id) == project_id \in DOMAIN db

\* Variant: the message is written only when one is given.
update_status_keepsMessage(db, project_id, status, error_message) ==
    IF ~get_by_id(db, project_id) THEN db
    ELSE IF error_message = NoMessage
    THEN [db EXCEPT ![project_id].status = status]
    ELSE [db EXCEPT ![project_id].status = status,
                    ![project_id].error_message = error_message]

update_status(db, project_id, status, error_message) ==
    IF ~get_by_id(db, project_id) THEN db
    ELSE [db EXCEPT ![project_id].status = status,
                    ![project_id].error_message = error_message]

update_script(db, project_id, script_json, takeaway) ==
    IF ~get_by_id(db, project_id) THEN db
    ELSE [db EXCEPT ![project_id].script_json = script_json,
                    ![project_id].takeaway = takeaway]

ApproveGuard_anyNonFailed(st) == st # FAILED
ApproveGuard(st) == st = DRAFT

approve_ok(db, project_id) ==
    get_by_id(db, project_id) /\ ApproveGuard(db[project_id].status)

approve_project(db, project_id, reviewed_by) ==
    IF ~approve_ok(db, project_id) THEN db
    ELSE [db EXCEPT ![project_id].status = APPROVED,
                    ![project_id].reviewed_at = "utcnow",
                    ![project_id].reviewed_by = reviewed_by]

\* The row set_voiceover_path leaves behind for a project with a script.
set_voiceover_path(row, voiceover_path) ==
    [row EXCEPT !.voiceover_path = voiceover_path, !.status = AUDIO_READY]

delete(db, project_id) == [p \in DOMAIN db \ {project_id} |-> db[p]]

\* --------------------------------------------------------------- tasks

\* clean, orphan: what has happened to the task's project since the dispatch
\* (another request changed it; it was deleted).
Task(kind, pid) ==
    [kind |-> kind, pid |-> pid, pc |-> "queued", clean |-> TRUE, orphan |-> FALSE]

\* A request that changes project pid ends the "nothing else touched the
\* project" condition of the tasks of pid that are still running.
Touch(ts, pid) ==
    [i \in DOMAIN ts |->
        IF ts[i].pid = pid /\ ts[i].pc # "done" /\ ts[i].kind = "voiceover"
        THEN [ts[i] EXCEPT !.clean = FALSE] ELSE ts[i]]

\* Deleting project pid leaves its tasks that are still running without a row.
Orphan(ts, pid) ==
    [i \in DOMAIN ts |->
        IF ts[i].pid = pid /\ ts[i].pc # "done"
        THEN [ts[i] EXCEPT !.orphan = TRUE] ELSE ts[i]]

add_task(ts, kind, pid) == Append(ts, Task(kind, pid))

Event(op, pid, code, detail, arg) ==
    [op |-> op, pid |-> pid, code |-> code, detail |-> detail, arg |-> arg]


\* ------------------------------------------------------ REST handlers

create_project(ids) ==
    /\ IF ids[1] \notin Characters
       THEN /\ last' = Event("create_project", 0, 400, "Questioner character not found", << >>)
            /\ UNCHANGED <<rows, tasks>>
       ELSE IF ids[2] \notin Characters
       THEN /\ last' = Event("create_project", 0, 400, "Explainer character not found", << >>)
            /\ UNCHANGED <<rows, tasks>>
       ELSE /\ NextId(rows) \in ProjectIds
            /\ Len(tasks) < MaxTasks
            /\ rows' = create(rows)
            /\ tasks' = add_task(tasks, "script", NextId(rows))
            /\ last' = Event("create_project", NextId(rows), 200, "", << >>)
    /\ UNCHANGED <<script_generator, voiceover_service, settings>>
    /\ UNCHANGED tvars

update_project_script(project_id, request) ==
    /\ rows' = update_script(rows, project_id, request[1], request[2])
    /\ IF get_by_id(rows, project_id)
       THEN /\ tasks' = Touch(tasks, project_id)
            /\ last' = Event("update_project_script", project_id, 200, "", << >>)
       ELSE /\ tasks' = tasks
            /\ last' = Event("update_project_script", project_id, 404, "Project not found", << >>)
    /\ UNCHANGED <<script_generator, voiceover_service, settings>>
    /\ UNCHANGED tvars

delete_project(project_id) ==
    /\ IF get_by_id(rows, project_id)
       THEN /\ rows' = delete(rows, project_id)
            /\ tasks' = Orphan(Touch(tasks, project_id), project_id)
            /\ last' = Event("delete_project", project_id, 200, "deleted", << >>)
       ELSE /\ UNCHANGED <<rows, tasks>>
            /\ last' = Event("delete_project", project_id, 404, "Project not found", << >>)
    /\ UNCHANGED <<script_generator, voiceover_service, settings>>
    /\ UNCHANGED tvars

approve(project_id, reviewed_by) ==
    /\ IF approve_ok(rows, project_id)
       THEN /\ Len(tasks) < MaxTasks
            /\ rows' = approve_project(rows, project_id, reviewed_by)
            /\ tasks' = add_task(Touch(tasks, project_id), "voiceover", project_id)
            /\ last' = Event("approve_project", project_id, 200, "", <<reviewed_by>>)
       ELSE /\ UNCHANGED <<rows, tasks>>
            /\ last' = Event("approve_project", project_id, 400,
                             "Project not found or not in DRAFT status", <<reviewed_by>>)
    /\ UNCHANGED <<script_generator, voiceover_service, settings>>
    /\ UNCHANGED tvars

\* Variant: the notes are dropped from the message.
RejectMessage_noNotes(notes) == <<"Rejected: ">>
RejectMessage(notes) == <<"Rejected: ">> \o notes

reject_project(project_id, notes) ==
    /\ rows' = update_status(rows, project_id, DRAFT, RejectMessage(notes))
    /\ IF get_by_id(rows, project_id)
       THEN /\ tasks' = Touch(tasks, project_id)
            /\ last' = Event("reject_project", project_id, 200, "", notes)
       ELSE /\ tasks' = tasks
            /\ last' = Event("reject_project", project_id, 404, "Project not found", notes)
    /\ UNCHANGED <<script_generator, voiceover_service, settings>>
    /\ UNCHANGED tvars

regenerate_script(project_id) ==
    /\ IF ~get_by_id(rows, project_id)
       THEN /\ UNCHANGED <<rows, tasks>>
            /\ last' = Event("regenerate_script", project_id, 404, "Project not found", << >>)
       ELSE /\ Len(tasks) < MaxTasks
            /\ rows' = update_status(rows, project_id, DRAFT, NoMessage)
            /\ tasks' = add_task(Touch(tasks, project_id), "script", project_id)
            /\ last' = Event("regenerate_script", project_id, 200, "", << >>)
    /\ UNCHANGED <<script_generator, voiceover_service, settings>>
    /\ UNCHANGED tvars

\* Variant: anything but a draft may be rendered.
RenderGuard_notDraft(st) == st # DRAFT
RenderGuard(st) == st = AUDIO_READY

render_project(project_id) ==
    /\ IF ~get_by_id(rows, project_id)
       THEN /\ UNCHANGED <<rows, tasks>>
            /\ last' = Event("render_project", project_id, 404, "Project not found", << >>)
       ELSE IF ~RenderGuard(rows[project_id].status)
       THEN /\ UNCHANGED <<rows, tasks>>
            /\ last' = Event("render_project", project_id, 400,
                             "Project must be in AUDIO_READY status to render", << >>)
       ELSE /\ Len(tasks) < MaxTasks
            /\ rows' = update_status(rows, project_id, RENDERING, NoMessage)
            /\ tasks' = add_task(Touch(tasks, project_id), "render", project_id)
            /\ last' = Event("render_project", project_id, 200, "", << >>)
    /\ UNCHANGED <<script_generator, voiceover_service, settings>>
    /\ UNCHANGED tvars

\* Variant: a repository that also has update_voiceover and update_output.
RepositoryMethods_withAliases ==
    {"create", "get_by_id", "list_projects", "update_status", "update_script",
     "approve_project", "set_voiceover_path", "set_output", "delete",
     "add_scene", "update_scene_audio", "update_voiceover", "update_output"}

\* ---------------------------------------------------- background tasks

\* The methods class VideoProjectRepository defines.  The tasks also call
\* repo.update_voiceover and repo.update_output, which it does not define:
\* the attribute lookup raises AttributeError inside the task's try block.
RepositoryMethods ==
    {"create", "get_by_id", "list_projects", "update_status", "update_script",
     "approve_project", "set_voiceover_path", "set_output", "delete",
     "add_scene", "update_scene_audio"}

NoAttribute(name) == "'VideoProjectRepository' object has no attribute"

VoiceoverPath(pid) == IF pid = 1 THEN "voiceovers/1/combined_voiceover.mp3"
                                 ELSE "voiceovers/2/combined_voiceover.mp3"
OutputPath(pid) == IF pid = 1 THEN "videos/project_1.mp4" ELSE "videos/project_2.mp4"

TaskName(kind) ==
    CASE kind = "script" -> "generate_script_task"
      [] kind = "voiceover" -> "generate_voiceover_task"
      [] kind = "render" -> "render_video_task"

FailurePrefix(kind) ==
    CASE kind = "script" -> "Script generation failed: "
      [] kind = "voiceover" -> "Voiceover generation failed: "
      [] kind = "render" -> "Video rendering failed: "

\* except Exception as e: repo.update_status(project_id, FAILED, f"... failed: {e}")
\* Variant: the handler only logs.
on_exception_logOnly(db, kind, project_id, e) == db
on_exception(db, kind, project_id, e) ==
    update_status(db, project_id, FAILED, <<FailurePrefix(kind), e>>)

\* One step of task t: the store after it, the task's next position, the event.
TaskStep(t, db, pc, code, detail) ==
    /\ rows' = db
    /\ tasks' = [tasks EXCEPT ![t].pc = pc,
                            ![t].clean = IF pc = "done" THEN FALSE ELSE @,
                            ![t].orphan = IF pc = "done" THEN FALSE ELSE @]
    /\ last' = Event(TaskName(tasks[t].kind), tasks[t].pid, code, detail, << >>)

TaskFails(t, e) ==
    TaskStep(t, on_exception(rows, tasks[t].kind, tasks[t].pid, e), "done", "failed", e)

NotConfigured(service) ==
    IF service = "claude" THEN "503: Claude API key not configured"
                          ELSE "503: Eleven Labs API key not configured"

\* generate_script_task up to `await script_gen.generate(...)`
generate_script_task_start(t) ==
    /\ tasks[t].kind = "script" /\ tasks[t].pc = "queued"
    /\ IF script_generator = None /\ ~settings.claude_api_key
       THEN /\ TaskFails(t, NotConfigured("claude"))
            /\ UNCHANGED script_generator
       ELSE /\ script_generator' = "DialogueScriptGenerator"
            /\ TaskStep(t, rows, "awaiting", "awaiting", "")
    /\ UNCHANGED <<voiceover_service, settings>>
    /\ UNCHANGED tvars

\* ... and from the point where generate returns a script or raises
generate_script_task_resume(t, outcome) ==
    /\ tasks[t].kind = "script" /\ tasks[t].pc = "awaiting"
    /\ IF outcome # Raises
       THEN TaskStep(t, update_script(rows, tasks[t].pid, outcome[1], outcome[2]),
                     "done", "ok", "")
       ELSE TaskFails(t, "APIError")
    /\ UNCHANGED <<script_generator, voiceover_service, settings>>
    /\ UNCHANGED tvars

\* generate_voiceover_task up to `await voiceover_service.generate_voiceover(...)`
generate_voiceover_task_start(t) ==
    /\ tasks[t].kind = "voiceover" /\ tasks[t].pc = "queued"
    /\ LET pid == tasks[t].pid IN
       IF ~get_by_id(rows, pid) \/ Falsy(rows[pid].script_json)
       THEN /\ TaskStep(t, rows, "done", "returned", "not found or has no script")
            /\ UNCHANGED voiceover_service
       ELSE IF rows[pid].script_json = BadDict
       THEN /\ TaskFails(t, "KeyError")
            /\ UNCHANGED voiceover_service
       ELSE IF voiceover_service = None /\ ~settings.elevenlabs_api_key
       THEN /\ TaskFails(t, NotConfigured("elevenlabs"))
            /\ UNCHANGED voiceover_service
       ELSE /\ voiceover_service' = "VoiceoverService"
            /\ TaskStep(t, rows, "awaiting", "awaiting", "")
    /\ UNCHANGED <<script_generator, settings>>
    /\ UNCHANGED tvars

\* What the test suite expects of the two aliases the tasks call.
update_voiceover(db, project_id, voiceover_path) ==
    IF ~get_by_id(db, project_id) THEN db
    ELSE [db EXCEPT ![project_id] = set_voiceover_path(db[project_id], voiceover_path)]

update_output(db, project_id, output_path) ==
    IF ~get_by_id(db, project_id) THEN db
    ELSE [db EXCEPT ![project_id].output_path = output_path,
                    ![project_id].status = COMPLETED]

\* repo.update_voiceover(...); repo.update_status(project_id, AUDIO_READY)
store_voiceover(db, project_id, voiceover_path) ==
    IF "update_voiceover" \in RepositoryMethods
    THEN update_status(update_voiceover(db, project_id, voiceover_path),
                       project_id, AUDIO_READY, NoMessage)
    ELSE on_exception(db, "voiceover", project_id, NoAttribute("update_voiceover"))

\* repo.update_output(...); repo.update_status(project_id, COMPLETED)
store_output(db, project_id, output_path) ==
    IF "update_output" \in RepositoryMethods
    THEN update_status(update_output(db, project_id, output_path),
                       project_id, COMPLETED, NoMessage)
    ELSE on_exception(db, "render", project_id, NoAttribute("update_output"))

generate_voiceover_task_resume(t, outcome) ==
    /\ tasks[t].kind = "voiceover" /\ tasks[t].pc = "awaiting"
    /\ LET pid == tasks[t].pid IN
       IF outcome = "raises"
       THEN TaskFails(t, "ElevenLabsError")
       ELSE IF "update_voiceover" \in RepositoryMethods
       THEN TaskStep(t, store_voiceover(rows, pid, VoiceoverPath(pid)), "done", "ok", "")
       ELSE TaskStep(t, store_voiceover(rows, pid, VoiceoverPath(pid)), "done", "failed",
                     NoAttribute("update_voiceover"))
    /\ UNCHANGED <<script_generator, voiceover_service, settings>>
    /\ UNCHANGED tvars

\* render_video_task up to `await lipsync_renderer.render_video(...)`;
\* background: whether a background image is found on disk.
render_video_task_start(t, background) ==
    /\ tasks[t].kind = "render" /\ tasks[t].pc = "queued"
    /\ LET pid == tasks[t].pid IN
       IF \/ ~get_by_id(rows, pid)
          \/ Falsy(rows[pid].script_json)
          \/ Falsy(rows[pid].voiceover_path)
       THEN TaskStep(t, rows, "done", "returned", "not ready for rendering")
       ELSE IF rows[pid].script_json = BadDict
       THEN TaskFails(t, "KeyError")
       ELSE IF ~background
       THEN TaskFails(t, "No background image available")
       ELSE TaskStep(t, rows, "awaiting", "awaiting", "")
    /\ UNCHANGED <<script_generator, voiceover_service, settings>>
    /\ UNCHANGED tvars

render_video_task_resume(t, outcome) ==
    /\ tasks[t].kind = "render" /\ tasks[t].pc = "awaiting"
    /\ LET pid == tasks[t].pid IN
       IF outcome = "raises"
       THEN TaskFails(t, "FFmpeg rendering failed")
       ELSE IF "update_output" \in RepositoryMethods
       THEN TaskStep(t, store_output(rows, pid, OutputPath(pid)), "done", "ok", "")
       ELSE TaskStep(t, store_output(rows, pid, OutputPath(pid)), "done", "failed",
                     NoAttribute("update_output"))
    /\ UNCHANGED <<script_generator, voiceover_service, settings>>
    /\ UNCHANGED tvars

\* ------------------------------------------------------ specification

\* A project that was scripted, approved and voiced: the row the store holds
\* once set_voiceover_path has run for it.
AudioReadyRow ==
    set_voiceover_path(
        approve_project(update_script(create(<< >>), 1, "A", "ta"), 1, "system")[1],
        VoiceoverPath(1))

\* The store the process starts on: empty, or holding a project ready to render.
InitStores == {<< >>, [p \in {1} |-> AudioReadyRow]}

NoSegments == << >>
NoTimingRun ==
    /\ script = << >>
    /\ total_duration = None
    /\ scene_durations = NoSegments
    /\ timings = [by |-> "none", raised |-> "", windows |-> << >>]

\* The command of a render, as the builder assembles it: the media inputs in
\* "-i" order, the stages of the filter graph, the mapped streams, the
\* option that ends the output, the output path.
Command(by, raised, inputs, filter_complex, maps, stop, output) ==
    [by |-> by, raised |-> raised, inputs |-> inputs,
     filter_complex |-> filter_complex, maps |-> maps, stop |-> stop,
     output |-> output]
NoCommand == Command("none", "", << >>, << >>, << >>, "", << >>)

\* render_video after the subprocess has returned
RenderOutcome(by, returncode, stderr, raised, message, probed, result) ==
    [by |-> by, returncode |-> returncode, stderr |-> stderr, raised |-> raised,
     message |-> message, probed |-> probed, result |-> result]
NotRendered == RenderOutcome("none", 0, "", "", << >>, << >>, << >>)

NoMusic == << >>

NoRenderRun ==
    /\ character_assets = << >>
    /\ music_path = NoMusic
    /\ line_timings = << >>
    /\ cmd = NoCommand
    /\ render = NotRendered

NoUpload == [op |-> "", character_id |-> 0, asset_id |-> 0, pose |-> "",
             filename |-> << >>, code |-> 0, detail |-> << >>]
NoUploadRun ==
    /\ dirs = {}
    /\ files = {}
    /\ asset_rows = << >>
    /\ upload = NoUpload

NotDeleted == [file_path |-> << >>, raised |-> "", message |-> "", result |-> None]
NoDeleteRun ==
    /\ disk = {}
    /\ deleted = NotDeleted

NoTextRun ==
    /\ arg_text = << >>
    /\ arg_max_chars = 40
    /\ text_out = [by |-> "none", value |-> << >>]

Init ==
    /\ rows \in InitStores
    /\ tasks = << >>
    /\ script_generator = None
    /\ voiceover_service = None
    /\ settings \in [claude_api_key : BOOLEAN, elevenlabs_api_key : BOOLEAN]
    /\ last = Event("startup", 0, 0, "", << >>)
    /\ NoTimingRun
    /\ NoTextRun
    /\ NoRenderRun
    /\ NoUploadRun
    /\ NoDeleteRun

Request ==
    \/ \E ids \in CharacterInputs : create_project(ids)
    \/ \E p \in RequestIds, r \in UpdateScriptInputs : update_project_script(p, r)
    \/ \E p \in RequestIds : delete_project(p)
    \/ \E p \in RequestIds, by \in ReviewerInputs : approve(p, by)
    \/ \E p \in RequestIds, n \in NotesInputs : reject_project(p, n)
    \/ \E p \in RequestIds : regenerate_script(p)
    \/ \E p \in RequestIds : render_project(p)

BackgroundTask ==
    \/ \E t \in DOMAIN tasks : generate_script_task_start(t)
    \/ \E t \in DOMAIN tasks, o \in GeneratedScripts \cup {Raises} :
          generate_script_task_resume(t, o)
    \/ \E t \in DOMAIN tasks : generate_voiceover_task_start(t)
    \/ \E t \in DOMAIN tasks, o \in {"returns", "raises"} :
          generate_voiceover_task_resume(t, o)
    \/ \E t \in DOMAIN tasks, bg \in BOOLEAN : render_video_task_start(t, bg)
    \/ \E t \in DOMAIN tasks, o \in {"returns", "raises"} :
          render_video_task_resume(t, o)

Next == Request \/ BackgroundTask

Spec == Init /\ [][Next]_vars

\* ------------------------------------------------- timing calculation

\* The code computes times in Python floats (IEEE 754 binary64, round to
\* nearest, ties to even).  A natural number is the sequence of its bits,
\* least significant first, without leading zeros; a float is zero or
\* m * 2^e with m of exactly Precision bits.
\* (The recursions below halve their argument: the evaluator's stack is short.)
Trim(n) ==
    IF \A i \in DOMAIN n : n[i] = 0 THEN << >>
    ELSE SubSeq(n, 1, CHOOSE i \in DOMAIN n :
                          n[i] = 1 /\ \A j \in (i + 1)..Len(n) : n[j] = 0)

RECURSIVE BitsOf(_)
BitsOf(k) == IF k = 0 THEN << >> ELSE <<k % 2>> \o BitsOf(k \div 2)

Zeros(n) == [i \in 1..n |-> 0]

ShiftLeft(a, n) == IF a = << >> THEN a ELSE Zeros(n) \o a

\* a + b + carry for a, b of one length >= 1: <<sum of that length, carry out>>
RECURSIVE AddWidth(_, _, _)
AddWidth(a, b, carry) ==
    IF Len(a) = 1
    THEN <<<<(a[1] + b[1] + carry) % 2>>, (a[1] + b[1] + carry) \div 2>>
    ELSE LET h == Len(a) \div 2
             lo == AddWidth(SubSeq(a, 1, h), SubSeq(b, 1, h), carry)
             hi == AddWidth(SubSeq(a, h + 1, Len(a)), SubSeq(b, h + 1, Len(b)), lo[2])
         IN  <<lo[1] \o hi[1], hi[2]>>

BitsAdd(a, b) ==
    IF a = << >> THEN b
    ELSE IF b = << >> THEN a
    ELSE LET w == IF Len(a) > Len(b) THEN Len(a) ELSE Len(b)
             s == AddWidth(a \o Zeros(w - Len(a)), b \o Zeros(w - Len(b)), 0)
         IN  IF s[2] = 1 THEN s[1] \o <<1>> ELSE s[1]

RECURSIVE BitsMul(_, _)
BitsMul(a, b) ==
    IF a = << >> \/ b = << >> THEN << >>
    ELSE IF Len(b) = 1 THEN (IF b[1] = 1 THEN a ELSE << >>)
    ELSE LET h == Len(b) \div 2
         IN  BitsAdd(BitsMul(a, SubSeq(b, 1, h)),
                     ShiftLeft(BitsMul(a, SubSeq(b, h + 1, Len(b))), h))

Precision == 53

FloatZero == [m |-> << >>, e |-> 0]

\* The float nearest to n * 2^e; lowest is 1 when the exact value lies
\* strictly above n * 2^e (bits lost by the caller), and then n is odd-padded.
Round(n0, e) ==
    LET n == Trim(n0)
        L == Len(n)
    IN  IF L = 0 THEN FloatZero
        ELSE IF L <= Precision
        THEN [m |-> Zeros(Precision - L) \o n, e |-> e - (Precision - L)]
        ELSE LET d == L - Precision
                 kept == SubSeq(n, d + 1, L)
                 guard == n[d]
                 sticky == \E i \in 1..(d - 1) : n[i] = 1
                 up == guard = 1 /\ (sticky \/ kept[1] = 1)
                 r == IF up THEN BitsAdd(kept, <<1>>) ELSE kept
             IN  IF Len(r) > Precision
                 THEN [m |-> Tail(r), e |-> e + d + 1]
                 ELSE [m |-> r, e |-> e + d]

\* float(k * 2^-j) for integers k >= 0, j >= 0
Float(k, j) == Round(BitsOf(k), 0 - j)

\* a / b scaled by powers of two until b <= a < 2 * b
RECURSIVE Normalise(_, _, _)
Normalise(a, b, k) ==
    IF a >= 2 * b THEN Normalise(a, 2 * b, k + 1)
    ELSE IF a < b THEN Normalise(2 * a, b, k - 1)
    ELSE <<a, b, k>>

\* 2^i mod b
RECURSIVE PowerOfTwoMod(_, _)
PowerOfTwoMod(i, b) ==
    IF i = 0 THEN 1 % b
    ELSE LET half == PowerOfTwoMod(i \div 2, b)
         IN  (half * half * (IF i % 2 = 1 THEN 2 ELSE 1)) % b

\* The first n bits of r / b (r < b) after the binary point, least
\* significant first, below them one bit that tells whether a remainder is
\* left: bit i is floor(2 * (r * 2^(i-1) mod b) / b).
LongDivision(r, b, n) ==
    <<IF (r * PowerOfTwoMod(n, b)) % b = 0 THEN 0 ELSE 1>> \o
    [k \in 1..n |-> (2 * ((r * PowerOfTwoMod(n - k, b)) % b)) \div b]

\* int / int (true division), a >= 0, b > 0
TrueDiv(a, b) ==
    IF a = 0 THEN FloatZero
    ELSE LET nz == Normalise(a, b, 0)
             q == LongDivision(nz[1] - nz[2], nz[2], Precision) \o <<1>>
         IN  Round(q, nz[3] - Precision - 1)

\* The number of zero bits below the lowest one bit of m.
LowZeros(m) ==
    (CHOOSE i \in DOMAIN m : m[i] = 1 /\ \A j \in 1..(i - 1) : m[j] = 0) - 1

\* float * float
FMul(x, y) ==
    IF x = FloatZero \/ y = FloatZero THEN FloatZero
    ELSE LET z == LowZeros(y.m)
         IN  Round(BitsMul(x.m, SubSeq(y.m, z + 1, Len(y.m))), x.e + y.e + z)

\* float + float
FAdd(x, y) ==
    IF x = FloatZero THEN y
    ELSE IF y = FloatZero THEN x
    ELSE LET e == IF x.e < y.e THEN x.e ELSE y.e
         IN  Round(BitsAdd(ShiftLeft(x.m, x.e - e), ShiftLeft(y.m, y.e - e)), e)

QUESTIONER == "questioner"
EXPLAINER == "explainer"
CharacterRole == {QUESTIONER, EXPLAINER}

DialogueLine(role, text) == [speaker_role |-> role, line |-> text]

\* sum(len(line.line) for line in script.lines)
RECURSIVE total_chars(_)
total_chars(lines) ==
    IF lines = << >> THEN 0 ELSE Len(Head(lines).line) + total_chars(Tail(lines))

\* FFmpegRenderer._calculate_line_timings: the loop over script.lines
RECURSIVE ffmpeg_timing_loop(_, _, _, _, _)
ffmpeg_timing_loop(lines, chars, total, current_time, out) ==
    IF lines = << >> THEN out
    ELSE LET line == Head(lines)
             line_duration == FMul(TrueDiv(Len(line.line), chars), total)
             start_time == current_time
             end_time == FAdd(current_time, line_duration)
         IN  ffmpeg_timing_loop(Tail(lines), chars, total, end_time,
                 Append(out, [start |-> start_time, end |-> end_time,
                              role |-> line.speaker_role]))

Timings(windows) == [raised |-> "", windows |-> windows]
ZeroDivisionError == [raised |-> "ZeroDivisionError", windows |-> << >>]

\* Variant: every line gets the same share of the duration.
ffmpeg_calculate_line_timings_equalShare(lines, total) ==
    Timings(ffmpeg_timing_loop(
        [i \in DOMAIN lines |-> DialogueLine(lines[i].speaker_role, <<"x">>)],
        Len(lines), total, FloatZero, << >>))

ffmpeg_calculate_line_timings(lines, total) ==
    IF lines # << >> /\ total_chars(lines) = 0 THEN ZeroDivisionError
    ELSE Timings(ffmpeg_timing_loop(lines, total_chars(lines), total, FloatZero, << >>))

\* LipSyncRenderer._calculate_line_timings: the loop over script.lines
RECURSIVE lipsync_timing_loop(_, _, _, _, _)
lipsync_timing_loop(lines, chars, total, current, out) ==
    IF lines = << >> THEN out
    ELSE LET line == Head(lines)
             dur == FMul(TrueDiv(Len(line.line), chars), total)
         IN  lipsync_timing_loop(Tail(lines), chars, total, FAdd(current, dur),
                 Append(out, [start |-> current, end |-> FAdd(current, dur),
                              role |-> line.speaker_role]))

lipsync_calculate_line_timings(lines, total) ==
    IF lines # << >> /\ total_chars(lines) = 0 THEN ZeroDivisionError
    ELSE Timings(lipsync_timing_loop(lines, total_chars(lines), total, FloatZero, << >>))

\* Inputs of the timing calculation.
Text(k) == [i \in 1..k |-> "x"]
Texts == {Text(k) : k \in 0..MaxLen}
Lines == {DialogueLine(r, x) : r \in CharacterRole, x \in Texts}
RECURSIVE ScriptsOfLength(_)
ScriptsOfLength(n) ==
    IF n = 0 THEN {<< >>}
    ELSE {Append(s, l) : s \in ScriptsOfLength(n - 1), l \in Lines}
ScenarioScript ==
    <<DialogueLine(QUESTIONER, <<"H", "i", "?">>),
      DialogueLine(EXPLAINER, <<"H", "e", "l", "l", "o", "!">>)>>
Scripts == UNION {ScriptsOfLength(n) : n \in 0..MaxLines} \cup {ScenarioScript}
\* 1.0 .. MaxDur.0, 7.0, 10.0 and 10.5 seconds
Durations == {Float(k, 0) : k \in 1..MaxDur} \cup {Float(7, 0), Float(10, 0), Float(21, 1)}

\* The segment files scene_001.mp3, scene_002.mp3, ... the voiceover step leaves
\* next to the combined file: absent, or line i measured at i seconds when the
\* combined file is as long as the segments together.
MeasuredSegments(lines) == [i \in DOMAIN lines |-> Float(i, 0)]
SceneDurations(lines, total) ==
    {NoSegments} \cup
    {d \in {MeasuredSegments(lines)} :
        lines # << >> /\ total = Float((Len(lines) * (Len(lines) + 1)) \div 2, 0)}

NotCalculated == [by |-> "none", raised |-> "", windows |-> << >>]

FFmpegCalculate ==
    /\ timings.by = "none"
    /\ timings' = [by |-> "FFmpegRenderer"] @@ ffmpeg_calculate_line_timings(script, total_duration)
    /\ UNCHANGED <<script, total_duration, scene_durations>>
    /\ UNCHANGED <<wfvars, xvars, cvars, uvars, dvars>>

LipSyncCalculate ==
    /\ timings.by = "none"
    /\ timings' = [by |-> "LipSyncRenderer"] @@ lipsync_calculate_line_timings(script, total_duration)
    /\ UNCHANGED <<script, total_duration, scene_durations>>
    /\ UNCHANGED <<wfvars, xvars, cvars, uvars, dvars>>

TimingInit ==
    /\ rows = << >>
    /\ tasks = << >>
    /\ script_generator = None
    /\ voiceover_service = None
    /\ settings = [claude_api_key |-> TRUE, elevenlabs_api_key |-> TRUE]
    /\ last = Event("startup", 0, 0, "", << >>)
    /\ script \in Scripts
    /\ total_duration \in Durations
    /\ scene_durations \in SceneDurations(script, total_duration)
    /\ timings = NotCalculated
    /\ NoTextRun
    /\ NoRenderRun
    /\ NoUploadRun
    /\ NoDeleteRun

TimingNext == FFmpegCalculate \/ LipSyncCalculate

TimingSpec == TimingInit /\ [][TimingNext]_vars

\* --------------------------------------------------------- text helpers

\* A str is the sequence of its characters.
Backslash == "\\"
Quote == "'"
Colon == ":"
Percent == "%"
Space == " "
Whitespace == {" ", "\t", "\n"}

StartsWith(s, old) == Len(old) <= Len(s) /\ SubSeq(s, 1, Len(old)) = old

\* str.replace(old, new): every occurrence, left to right, not overlapping
RECURSIVE replace(_, _, _)
replace(s, old, new) ==
    IF s = << >> THEN << >>
    ELSE IF StartsWith(s, old)
    THEN new \o replace(SubSeq(s, Len(old) + 1, Len(s)), old, new)
    ELSE <<Head(s)>> \o replace(Tail(s), old, new)

\* Variant: the backslash is escaped last.
ffmpeg_escape_text_backslashLast(t) ==
    replace(replace(replace(replace(t,
        <<Quote>>, <<Quote, Backslash, Quote, Quote>>),
        <<Colon>>, <<Backslash, Colon>>),
        <<Percent>>, <<Backslash, Percent>>),
        <<Backslash>>, <<Backslash, Backslash>>)

\* FFmpegRenderer._escape_text
ffmpeg_escape_text(t) ==
    replace(replace(replace(replace(t,
        <<Backslash>>, <<Backslash, Backslash>>),
        <<Quote>>, <<Quote, Backslash, Quote, Quote>>),
        <<Colon>>, <<Backslash, Colon>>),
        <<Percent>>, <<Backslash, Percent>>)

\* LipSyncRenderer._esc
lipsync_esc(t) ==
    replace(replace(replace(replace(t,
        <<Backslash>>, <<Backslash, Backslash>>),
        <<Quote>>, <<Quote, Backslash, Quote, Quote>>),
        <<Colon>>, <<Backslash, Colon>>),
        <<Percent>>, <<Backslash, Percent>>)

\* str.split(): the maximal runs of non-whitespace characters
RECURSIVE split_loop(_, _, _)
split_loop(s, word, out) ==
    IF s = << >> THEN (IF word = << >> THEN out ELSE Append(out, word))
    ELSE IF Head(s) \in Whitespace
    THEN split_loop(Tail(s), << >>, IF word = << >> THEN out ELSE Append(out, word))
    ELSE split_loop(Tail(s), Append(word, Head(s)), out)

split(s) == split_loop(s, << >>, << >>)

\* sep.join(strs)
RECURSIVE join(_, _)
join(sep, strs) ==
    IF strs = << >> THEN << >>
    ELSE IF Len(strs) = 1 THEN strs[1]
    ELSE strs[1] \o sep \o join(sep, Tail(strs))

\* "\\n" in the source: a backslash and the letter n
LineBreak == <<Backslash, "n">>

\* Variant: a word that does not fit is dropped instead of opening a line.
RECURSIVE ffmpeg_wrap_loop_dropsOverflow(_, _, _, _, _)
ffmpeg_wrap_loop_dropsOverflow(words, max_chars, lines, current_line, current_length) ==
    IF words = << >>
    THEN (IF current_line # << >>
          THEN Append(lines, join(<<Space>>, current_line)) ELSE lines)
    ELSE LET word == Head(words)
         IN  IF current_length + Len(word) + 1 <= max_chars
             THEN ffmpeg_wrap_loop_dropsOverflow(Tail(words), max_chars, lines,
                      Append(current_line, word), current_length + Len(word) + 1)
             ELSE ffmpeg_wrap_loop_dropsOverflow(Tail(words), max_chars,
                      IF current_line # << >>
                      THEN Append(lines, join(<<Space>>, current_line)) ELSE lines,
                      << >>, 0)

\* FFmpegRenderer._wrap_text: the loop over words and the flush after it
RECURSIVE ffmpeg_wrap_loop(_, _, _, _, _)
ffmpeg_wrap_loop(words, max_chars, lines, current_line, current_length) ==
    IF words = << >>
    THEN (IF current_line # << >>
          THEN Append(lines, join(<<Space>>, current_line)) ELSE lines)
    ELSE LET word == Head(words)
         IN  IF current_length + Len(word) + 1 <= max_chars
             THEN ffmpeg_wrap_loop(Tail(words), max_chars, lines,
                      Append(current_line, word), current_length + Len(word) + 1)
             ELSE ffmpeg_wrap_loop(Tail(words), max_chars,
                      IF current_line # << >>
                      THEN Append(lines, join(<<Space>>, current_line)) ELSE lines,
                      <<word>>, Len(word))

ffmpeg_wrap_lines(t, max_chars) == ffmpeg_wrap_loop(split(t), max_chars, << >>, << >>, 0)

ffmpeg_wrap_text(t, max_chars) == join(LineBreak, ffmpeg_wrap_lines(t, max_chars))

\* LipSyncRenderer._wrap: the loop over words and the flush after it
RECURSIVE lipsync_wrap_loop(_, _, _, _, _)
lipsync_wrap_loop(words, max_chars, lines, cur, length) ==
    IF words = << >>
    THEN (IF cur # << >> THEN Append(lines, join(<<Space>>, cur)) ELSE lines)
    ELSE LET word == Head(words)
         IN  IF length + Len(word) + 1 <= max_chars
             THEN lipsync_wrap_loop(Tail(words), max_chars, lines,
                      Append(cur, word), length + Len(word) + 1)
             ELSE lipsync_wrap_loop(Tail(words), max_chars,
                      IF cur # << >> THEN Append(lines, join(<<Space>>, cur)) ELSE lines,
                      <<word>>, Len(word))

lipsync_wrap_lines(t, max_chars) == lipsync_wrap_loop(split(t), max_chars, << >>, << >>, 0)

lipsync_wrap(t, max_chars) == join(LineBreak, lipsync_wrap_lines(t, max_chars))

\* Inputs of the text helpers.
RECURSIVE StringsOver(_, _)
StringsOver(alphabet, n) ==
    IF n = 0 THEN {<< >>}
    ELSE LET shorter == StringsOver(alphabet, n - 1)
         IN  shorter \cup {Append(t, c) : t \in shorter, c \in alphabet}
EscapeAlphabet == {Backslash, Quote, Colon, Percent, "a", "n"}
WrapAlphabet == {"a", "b", Space}
HelperTexts ==
    StringsOver(EscapeAlphabet, MaxEscapeLen) \cup StringsOver(WrapAlphabet, MaxWrapLen)
Widths == 1..MaxWidth

FFmpegEscapeText ==
    /\ text_out.by = "none"
    /\ text_out' = [by |-> "FFmpegRenderer._escape_text",
                    value |-> ffmpeg_escape_text(arg_text)]
    /\ UNCHANGED <<arg_text, arg_max_chars>>
    /\ UNCHANGED <<wfvars, timevars, cvars, uvars, dvars>>

LipSyncEsc ==
    /\ text_out.by = "none"
    /\ text_out' = [by |-> "LipSyncRenderer._esc", value |-> lipsync_esc(arg_text)]
    /\ UNCHANGED <<arg_text, arg_max_chars>>
    /\ UNCHANGED <<wfvars, timevars, cvars, uvars, dvars>>

FFmpegWrapText ==
    /\ text_out.by = "none"
    /\ text_out' = [by |-> "FFmpegRenderer._wrap_text",
                    value |-> ffmpeg_wrap_text(arg_text, arg_max_chars)]
    /\ UNCHANGED <<arg_text, arg_max_chars>>
    /\ UNCHANGED <<wfvars, timevars, cvars, uvars, dvars>>

LipSyncWrap ==
    /\ text_out.by = "none"
    /\ text_out' = [by |-> "LipSyncRenderer._wrap",
                    value |-> lipsync_wrap(arg_text, arg_max_chars)]
    /\ UNCHANGED <<arg_text, arg_max_chars>>
    /\ UNCHANGED <<wfvars, timevars, cvars, uvars, dvars>>

TextInit ==
    /\ rows = << >>
    /\ tasks = << >>
    /\ script_generator = None
    /\ voiceover_service = None
    /\ settings = [claude_api_key |-> TRUE, elevenlabs_api_key |-> TRUE]
    /\ last = Event("startup", 0, 0, "", << >>)
    /\ NoTimingRun
    /\ arg_text \in HelperTexts
    /\ arg_max_chars \in Widths
    /\ text_out = [by |-> "none", value |-> << >>]
    /\ NoRenderRun
    /\ NoUploadRun
    /\ NoDeleteRun

TextNext == FFmpegEscapeText \/ LipSyncEsc \/ FFmpegWrapText \/ LipSyncWrap

TextSpec == TextInit /\ [][TextNext]_vars

\* ---------------------------------------------------- command assembly

\* f"{x:.2f}": x rounded (ties to even, on the exact binary value) to a
\* whole number of hundredths.
RECURSIVE ValueOf(_)
ValueOf(bits) == IF bits = << >> THEN 0 ELSE bits[1] + 2 * ValueOf(Tail(bits))

\* n * 2^-k rounded to a whole number, ties to even
RoundHalfEven(n, k) ==
    IF k > Len(n) THEN 0
    ELSE LET half == k >= 1 /\ n[k] = 1
             sticky == \E i \in 1..(k - 1) : n[i] = 1
             odd == k < Len(n) /\ n[k + 1] = 1
         IN  ValueOf(SubSeq(n, k + 1, Len(n)))
             + (IF half /\ (sticky \/ odd) THEN 1 ELSE 0)

Format2f(x) ==
    IF x = FloatZero THEN 0
    ELSE RoundHalfEven(BitsMul(x.m, BitsOf(100)), 0 - x.e)

\* Files are named by what they hold.
BackgroundFile == <<"background">>
VoiceoverFile == <<"voiceover">>
MusicFile == <<"music">>
PosePath(role, pose) == <<"characters", role, pose>>

\* One "-i" of the command; ffmpeg numbers them 0, 1, 2, ... as they appear.
MediaInput(loop, path) == [loop |-> loop, path |-> path]

\* A pad of a filter stage: input stream k ("[k:v]") or a named label.
InputRef(k) == [index |-> k, name |-> <<"v">>]
Label(name) == [index |-> 0 - 1, name |-> name]
OUTV == Label(<<"outv">>)

\* between(t,lo,hi) with both times printed by Format2f.
Between(window) == [lo |-> Format2f(window.start), hi |-> Format2f(window.end)]

\* An enable expression: none, the speaking condition, or an expression
\* built around it.  A condition is the "+"-join of its between() terms,
\* "0" when there are none.
NoEnable == [op |-> "none", cond |-> << >>]
Enable(op, cond) == [op |-> op, cond |-> cond]

Stage(filter, inputs, output, enable, text) ==
    [filter |-> filter, inputs |-> inputs, output |-> output,
     enable |-> enable, text |-> text]

\* speaking_windows[role]
RECURSIVE speaking_windows(_, _)
speaking_windows(line_timings_, role) ==
    IF line_timings_ = << >> THEN << >>
    ELSE (IF Head(line_timings_).role = role THEN <<Head(line_timings_)>> ELSE << >>)
         \o speaking_windows(Tail(line_timings_), role)

\* "+".join(between(...) for the windows)
talking_conditions(windows) == [i \in DOMAIN windows |-> Between(windows[i])]

\* A dict as the sequence of its items in insertion order.
HasKey(dict, key) == \E i \in DOMAIN dict : dict[i].key = key
Get(dict, key) == dict[CHOOSE i \in DOMAIN dict : dict[i].key = key].value
Item(key, value) == [key |-> key, value |-> value]

\* Variant: the counter is not advanced after a pose is declared.
RECURSIVE ffmpeg_declare_poses_sameIndex(_, _, _, _, _)
ffmpeg_declare_poses_sameIndex(role, poses, inputs, character_inputs_role, input_index) ==
    IF poses = << >>
    THEN [inputs |-> inputs, poses |-> character_inputs_role, input_index |-> input_index]
    ELSE ffmpeg_declare_poses_sameIndex(role, Tail(poses),
             IF Head(poses).value.exists
             THEN Append(inputs, MediaInput(TRUE, Head(poses).value.name)) ELSE inputs,
             IF Head(poses).value.exists
             THEN Append(character_inputs_role, Item(Head(poses).key, input_index))
             ELSE character_inputs_role,
             input_index)

\* FFmpegRenderer._build_ffmpeg_command: the inner loop over poses.items()
RECURSIVE ffmpeg_declare_poses(_, _, _, _, _)
ffmpeg_declare_poses(role, poses, inputs, character_inputs_role, input_index) ==
    IF poses = << >>
    THEN [inputs |-> inputs, poses |-> character_inputs_role, input_index |-> input_index]
    ELSE LET pose == Head(poses).key
             path == Head(poses).value
         IN  IF path.exists
             THEN ffmpeg_declare_poses(role, Tail(poses),
                      Append(inputs, MediaInput(TRUE, path.name)),
                      Append(character_inputs_role, Item(pose, input_index)),
                      input_index + 1)
             ELSE ffmpeg_declare_poses(role, Tail(poses), inputs,
                      character_inputs_role, input_index)

\* FFmpegRenderer._build_ffmpeg_command: the loop over character_assets.items()
RECURSIVE ffmpeg_declare_roles(_, _, _, _)
ffmpeg_declare_roles(assets, inputs, character_inputs, input_index) ==
    IF assets = << >>
    THEN [inputs |-> inputs, character_inputs |-> character_inputs,
          input_index |-> input_index]
    ELSE LET role == Head(assets).key
             d == ffmpeg_declare_poses(role, Head(assets).value, inputs, << >>,
                                       input_index)
         IN  ffmpeg_declare_roles(Tail(assets), d.inputs,
                 Append(character_inputs, Item(role, d.poses)), d.input_index)

\* FFmpegRenderer._build_filter_complex: "Scale and prepare all character
\* pose images"
RECURSIVE ffmpeg_scale_stages(_)
ffmpeg_scale_stages(character_inputs) ==
    IF character_inputs = << >> THEN << >>
    ELSE LET role == Head(character_inputs).key
             poses == Head(character_inputs).value
         IN  [i \in DOMAIN poses |->
                 Stage("scale,format", <<InputRef(poses[i].value)>>,
                       Label(<<"char", role, poses[i].key>>), NoEnable, << >>)]
             \o ffmpeg_scale_stages(Tail(character_inputs))

Built(filters, current) == [raised |-> "", filters |-> filters, current |-> current]
StopIteration == [raised |-> "StopIteration", filters |-> << >>, current |-> << >>]

Overlay(current, pose_label, next, enable) ==
    Stage("overlay", <<Label(current), Label(pose_label)>>, Label(next), enable, << >>)

\* FFmpegRenderer._build_filter_complex: "Overlay characters with pose
\* switching", the loop over ["questioner", "explainer"]
RECURSIVE ffmpeg_overlay_loop(_, _, _, _, _)
ffmpeg_overlay_loop(roles, character_inputs, line_timings_, filters, current_stream) ==
    IF roles = << >> THEN Built(filters, current_stream)
    ELSE LET role == Head(roles)
         IN  IF ~HasKey(character_inputs, role)
             THEN ffmpeg_overlay_loop(Tail(roles), character_inputs, line_timings_,
                                      filters, current_stream)
             ELSE
             LET poses == Get(character_inputs, role)
                 windows == speaking_windows(line_timings_, role)
                 talking_enable == talking_conditions(windows)
                 has_talking == HasKey(poses, "talking")
                 has_neutral == HasKey(poses, "neutral")
             IN  IF has_neutral /\ has_talking
                 THEN LET next_n == current_stream \o <<role, "n">>
                          next_t == next_n \o <<"t">>
                      IN  ffmpeg_overlay_loop(Tail(roles), character_inputs,
                              line_timings_,
                              filters \o
                              <<Overlay(current_stream, <<"char", role, "neutral">>,
                                        next_n, Enable("not", talking_enable)),
                                Overlay(next_n, <<"char", role, "talking">>,
                                        next_t, Enable("cond", talking_enable))>>,
                              next_t)
                 ELSE IF has_talking \/ has_neutral
                 THEN LET next_stream == current_stream \o <<role>>
                          pose == IF has_talking THEN "talking" ELSE "neutral"
                      IN  ffmpeg_overlay_loop(Tail(roles), character_inputs,
                              line_timings_,
                              Append(filters,
                                  Overlay(current_stream, <<"char", role, pose>>,
                                          next_stream, NoEnable)),
                              next_stream)
                 ELSE IF poses = << >> THEN StopIteration
                 ELSE LET next_stream == current_stream \o <<role>>
                          first_pose == Head(poses).key
                      IN  ffmpeg_overlay_loop(Tail(roles), character_inputs,
                              line_timings_,
                              Append(filters,
                                  Overlay(current_stream, <<"char", role, first_pose>>,
                                          next_stream, NoEnable)),
                              next_stream)

\* f"v{i}", f"txt{i}"
VLabels == <<"v0", "v1", "v2", "v3", "v4">>
TxtLabels == <<"txt0", "txt1", "txt2", "txt3", "txt4">>

Min(a, b) == IF a < b THEN a ELSE b

\* FFmpegRenderer._build_filter_complex: "Add text overlays for each line
\* with timing" (the drawtext pair of line i; zip stops at the shorter list)
RECURSIVE ffmpeg_text_loop(_, _, _, _, _)
ffmpeg_text_loop(i, lines, line_timings_, filters, current_stream) ==
    IF i >= Min(Len(lines), Len(line_timings_)) THEN Built(filters, current_stream)
    ELSE LET next_stream == <<VLabels[i + 1]>>
             wrapped_text == ffmpeg_wrap_text(lines[i + 1].line, 40)
         IN  ffmpeg_text_loop(i + 1, lines, line_timings_,
                 Append(filters,
                     Stage("drawtext,drawtext", <<Label(current_stream)>>,
                           Label(next_stream),
                           Enable("cond", <<Between(line_timings_[i + 1])>>),
                           ffmpeg_escape_text(wrapped_text))),
                 next_stream)

\* FFmpegRenderer._build_filter_complex
ffmpeg_build_filter_complex(script_, character_inputs, line_timings_) ==
    LET bg == Stage("scale,pad", <<InputRef(0)>>, Label(<<"bg">>), NoEnable, << >>)
        scaled == <<bg>> \o ffmpeg_scale_stages(character_inputs)
        overlaid == ffmpeg_overlay_loop(<<QUESTIONER, EXPLAINER>>, character_inputs,
                                        line_timings_, scaled, <<"bg">>)
    IN  IF overlaid.raised # "" THEN overlaid
        ELSE LET texted == ffmpeg_text_loop(0, script_, line_timings_,
                                            overlaid.filters, overlaid.current)
             IN  Built(Append(texted.filters,
                           Stage("copy", <<Label(texted.current)>>, OUTV, NoEnable, << >>)),
                       <<"outv">>)

OutputVideo == <<"output">>

\* FFmpegRenderer._build_ffmpeg_command
ffmpeg_build_ffmpeg_command(script_, assets, music, line_timings_) ==
    LET first == <<MediaInput(TRUE, BackgroundFile), MediaInput(FALSE, VoiceoverFile)>>
        d == ffmpeg_declare_roles(assets, first, << >>, 2)
        inputs == IF music # NoMusic THEN Append(d.inputs, MediaInput(FALSE, music))
                  ELSE d.inputs
        fc == ffmpeg_build_filter_complex(script_, d.character_inputs, line_timings_)
    IN  IF fc.raised # ""
        THEN Command("FFmpegRenderer", fc.raised, << >>, << >>, << >>, "", << >>)
        ELSE Command("FFmpegRenderer", "", inputs, fc.filters,
                     <<"[outv]", "1:a">>, "-shortest", OutputVideo)

\* LipSyncRenderer._build_command: one mouth frame of a role
lipsync_declare_frame(d, poses, key, frame) ==
    IF HasKey(poses, key) /\ Get(poses, key).exists
    THEN [inputs |-> Append(d.inputs, MediaInput(TRUE, Get(poses, key).name)),
          mapping |-> Append(d.mapping, Item(frame, d.idx)),
          idx |-> d.idx + 1]
    ELSE d

\* LipSyncRenderer._build_command: the loop over ["questioner", "explainer"]
RECURSIVE lipsync_declare_roles(_, _, _, _, _)
lipsync_declare_roles(roles, assets, inputs, input_map, idx) ==
    IF roles = << >>
    THEN [inputs |-> inputs, input_map |-> input_map, idx |-> idx]
    ELSE LET role == Head(roles)
         IN  IF ~HasKey(assets, role)
             THEN lipsync_declare_roles(Tail(roles), assets, inputs, input_map, idx)
             ELSE LET poses == Get(assets, role)
                      closed_key == IF HasKey(poses, "mouth_closed")
                                    THEN "mouth_closed" ELSE "neutral"
                      open_key == IF HasKey(poses, "mouth_open")
                                  THEN "mouth_open" ELSE "talking"
                      closed == lipsync_declare_frame(
                                    [inputs |-> inputs, mapping |-> << >>, idx |-> idx],
                                    poses, closed_key, "closed")
                      open == lipsync_declare_frame(closed, poses, open_key, "open")
                  IN  lipsync_declare_roles(Tail(roles), assets, open.inputs,
                          Append(input_map, Item(role, open.mapping)), open.idx)

\* LipSyncRenderer._build_filter: "Process each character with lip sync"
RECURSIVE lipsync_overlay_loop(_, _, _, _, _)
lipsync_overlay_loop(roles, input_map, line_timings_, filters, current) ==
    IF roles = << >> THEN Built(filters, current)
    ELSE LET role == Head(roles)
         IN  IF ~HasKey(input_map, role)
             THEN lipsync_overlay_loop(Tail(roles), input_map, line_timings_,
                                       filters, current)
             ELSE
             LET mapping == Get(input_map, role)
             IN  IF ~HasKey(mapping, "closed") \/ ~HasKey(mapping, "open")
                 THEN lipsync_overlay_loop(Tail(roles), input_map, line_timings_,
                                           filters, current)
                 ELSE
                 LET ws == speaking_windows(line_timings_, role)
                     speak_cond == talking_conditions(ws)
                     next_c == current \o <<role, "c">>
                     next_o == next_c \o <<"o">>
                 IN  lipsync_overlay_loop(Tail(roles), input_map, line_timings_,
                         filters \o
                         <<Stage("scale,format", <<InputRef(Get(mapping, "closed"))>>,
                                 Label(<<role, "closed">>), NoEnable, << >>),
                           Stage("scale,format", <<InputRef(Get(mapping, "open"))>>,
                                 Label(<<role, "open">>), NoEnable, << >>),
                           Overlay(current, <<role, "closed">>, next_c,
                                   Enable("closed", speak_cond)),
                           Overlay(next_c, <<role, "open">>, next_o,
                                   Enable("open", speak_cond))>>,
                         next_o)

\* LipSyncRenderer._build_filter: "Text overlays with background"
RECURSIVE lipsync_text_loop(_, _, _, _, _)
lipsync_text_loop(i, lines, line_timings_, filters, current) ==
    IF i >= Min(Len(lines), Len(line_timings_)) THEN Built(filters, current)
    ELSE LET nxt == <<TxtLabels[i + 1]>>
             wrapped == lipsync_wrap(lines[i + 1].line, 36)
         IN  lipsync_text_loop(i + 1, lines, line_timings_,
                 Append(filters,
                     Stage("drawbox,drawtext,drawtext", <<Label(current)>>, Label(nxt),
                           Enable("cond", <<Between(line_timings_[i + 1])>>),
                           lipsync_esc(wrapped))),
                 nxt)

\* LipSyncRenderer._build_filter
lipsync_build_filter(script_, input_map, line_timings_) ==
    LET bg == Stage("scale,pad", <<InputRef(0)>>, Label(<<"bg">>), NoEnable, << >>)
        overlaid == lipsync_overlay_loop(<<QUESTIONER, EXPLAINER>>, input_map,
                                         line_timings_, <<bg>>, <<"bg">>)
        texted == lipsync_text_loop(0, script_, line_timings_, overlaid.filters,
                                    overlaid.current)
    IN  Append(texted.filters,
               Stage("null", <<Label(texted.current)>>, OUTV, NoEnable, << >>))

\* LipSyncRenderer._build_command (it takes no music path)
lipsync_build_command(script_, assets, line_timings_) ==
    LET first == <<MediaInput(TRUE, BackgroundFile), MediaInput(FALSE, VoiceoverFile)>>
        d == lipsync_declare_roles(<<QUESTIONER, EXPLAINER>>, assets, first, << >>, 2)
    IN  Command("LipSyncRenderer", "", d.inputs,
                lipsync_build_filter(script_, d.input_map, line_timings_),
                <<"[outv]", "1:a">>, "-t", OutputVideo)

RenderResult(output_path) == [output_path |-> output_path]
RuntimeError(by, returncode, stderr) ==
    RenderOutcome(by, returncode, stderr, "RuntimeError",
                  <<"FFmpeg rendering failed: ", stderr>>, << >>, << >>)

\* Variant: the result is returned whatever the exit code.
ffmpeg_render_video_finish_ignoresExit(returncode, stderr) ==
    RenderOutcome("FFmpegRenderer", returncode, stderr, "", << >>,
                  <<"stat", "ffprobe">>, <<RenderResult(OutputVideo)>>)

\* FFmpegRenderer.render_video from the check of process.returncode on;
\* probed lists what is then done with the output file, in order.
ffmpeg_render_video_finish(returncode, stderr) ==
    IF returncode # 0 THEN RuntimeError("FFmpegRenderer", returncode, stderr)
    ELSE RenderOutcome("FFmpegRenderer", returncode, stderr, "", << >>,
                       <<"stat", "ffprobe">>, <<RenderResult(OutputVideo)>>)

\* LipSyncRenderer.render_video from the check of process.returncode on
lipsync_render_video_finish(returncode, stderr) ==
    IF returncode # 0 THEN RuntimeError("LipSyncRenderer", returncode, stderr)
    ELSE RenderOutcome("LipSyncRenderer", returncode, stderr, "", << >>,
                       <<"ffprobe", "stat">>, <<RenderResult(OutputVideo)>>)

\* Inputs of the renderers.
PoseOrder == <<"neutral", "talking", "mouth_closed", "mouth_open", "standing">>
Slots == {<<role, PoseOrder[i]>> : role \in CharacterRole, i \in DOMAIN PoseOrder}

PosesOf(role, present, missing) ==
    LET has(pose) == <<role, pose>> \in present
        item(pose) == Item(pose, [name |-> PosePath(role, pose),
                                  exists |-> <<role, pose>> \notin missing])
        kept == SelectSeq(PoseOrder, has)
    IN  [i \in DOMAIN kept |-> item(kept[i])]

\* {role: {pose: path}} as render_video_task builds it: questioner first, a
\* role only when it has a pose.
Assets(present, missing) ==
    LET has(role) == \E slot \in present : slot[1] = role
        kept == SelectSeq(<<QUESTIONER, EXPLAINER>>, has)
    IN  [i \in DOMAIN kept |-> Item(kept[i], PosesOf(kept[i], present, missing))]

\* At most MaxPoses pose files in all, any of them missing on disk.
CharacterAssets ==
    UNION {{Assets(present, missing) : missing \in SUBSET present} :
              present \in {s \in SUBSET Slots : Cardinality(s) <= MaxPoses}}

MusicPaths == {NoMusic, MusicFile}

TwoTurnsScript ==
    <<DialogueLine(QUESTIONER, <<"a">>), DialogueLine(EXPLAINER, <<"a", Space, "b">>),
      DialogueLine(QUESTIONER, <<"b", Colon, Quote, "s", Space, "a", "a", "a">>)>>
\* One speaker, two lines in a row.
SameSpeakerScript ==
    <<DialogueLine(QUESTIONER, <<"a">>), DialogueLine(QUESTIONER, <<"b">>)>>
\* (script, the probed narration duration)
Narrations ==
    {<<(<< >>), Float(10, 0)>>, <<ScenarioScript, Float(10, 0)>>,
     <<TwoTurnsScript, Float(6, 0)>>, <<SameSpeakerScript, Float(4, 0)>>}
ReturnCodes == {0, 1}
Stderrs == {"", "Invalid data found when processing input"}

FFmpegBuildCommand ==
    /\ cmd.by = "none"
    /\ cmd' = ffmpeg_build_ffmpeg_command(script, character_assets, music_path,
                                          line_timings)
    /\ UNCHANGED <<character_assets, music_path, line_timings, render>>
    /\ UNCHANGED <<wfvars, timevars, xvars, uvars, dvars>>

LipSyncBuildCommand ==
    /\ cmd.by = "none"
    /\ cmd' = lipsync_build_command(script, character_assets, line_timings)
    /\ UNCHANGED <<character_assets, music_path, line_timings, render>>
    /\ UNCHANGED <<wfvars, timevars, xvars, uvars, dvars>>

FFmpegRun(returncode, stderr) ==
    /\ cmd.by = "FFmpegRenderer"
    /\ cmd.raised = ""
    /\ render.by = "none"
    /\ render' = ffmpeg_render_video_finish(returncode, stderr)
    /\ UNCHANGED <<character_assets, music_path, line_timings, cmd>>
    /\ UNCHANGED <<wfvars, timevars, xvars, uvars, dvars>>

LipSyncRun(returncode, stderr) ==
    /\ cmd.by = "LipSyncRenderer"
    /\ cmd.raised = ""
    /\ render.by = "none"
    /\ render' = lipsync_render_video_finish(returncode, stderr)
    /\ UNCHANGED <<character_assets, music_path, line_timings, cmd>>
    /\ UNCHANGED <<wfvars, timevars, xvars, uvars, dvars>>

RenderInit ==
    /\ rows = << >>
    /\ tasks = << >>
    /\ script_generator = None
    /\ voiceover_service = None
    /\ settings = [claude_api_key |-> TRUE, elevenlabs_api_key |-> TRUE]
    /\ last = Event("startup", 0, 0, "", << >>)
    /\ \E n \in Narrations :
          /\ script = n[1]
          /\ total_duration = n[2]
          /\ line_timings \in {ffmpeg_calculate_line_timings(n[1], n[2]).windows,
                               lipsync_calculate_line_timings(n[1], n[2]).windows}
    /\ timings = NotCalculated
    /\ scene_durations = NoSegments
    /\ NoTextRun
    /\ character_assets \in CharacterAssets
    /\ music_path \in MusicPaths
    /\ cmd = NoCommand
    /\ render = NotRendered
    /\ NoUploadRun
    /\ NoDeleteRun

RenderNext ==
    \/ FFmpegBuildCommand
    \/ LipSyncBuildCommand
    \/ \E returncode \in ReturnCodes, stderr \in Stderrs : FFmpegRun(returncode, stderr)
    \/ \E returncode \in ReturnCodes, stderr \in Stderrs : LipSyncRun(returncode, stderr)

RenderSpec == RenderInit /\ [][RenderNext]_vars

\* ------------------------------------------------- character asset upload

ALLOWED_IMAGE_TYPES ==
    {<<".", "p", "n", "g">>, <<".", "j", "p", "g">>, <<".", "j", "p", "e", "g">>,
     <<".", "w", "e", "b", "p">>}

\* str.lower(), for the capitals that occur in the file names below
lower(s) ==
    [i \in DOMAIN s |->
        CASE s[i] = "P" -> "p" [] s[i] = "N" -> "n" [] s[i] = "G" -> "g"
          [] s[i] = "J" -> "j" [] OTHER -> s[i]]

\* str.rfind(c), counted from 1; 0 when c does not occur
rfind(s, c) ==
    IF \E i \in DOMAIN s : s[i] = c
    THEN CHOOSE i \in DOMAIN s : s[i] = c /\ \A j \in (i + 1)..Len(s) : s[j] # c
    ELSE 0

\* Path(filename).suffix: from the last dot of the final component, unless
\* that dot is its first or its last character
suffix(filename) ==
    LET name == SubSeq(filename, rfind(filename, "/") + 1, Len(filename))
        i == rfind(name, ".")
    IN  IF 1 < i /\ i < Len(name) THEN SubSeq(name, i, Len(name)) ELSE << >>

Saved(raised, message, dirs_, files_, path) ==
    [raised |-> raised, message |-> message, dirs |-> dirs_, files |-> files_,
     path |-> path]
InvalidImageType(ext, dirs_, files_) ==
    Saved("ValueError",
          <<"Invalid image type: ">> \o ext \o <<". Allowed: ", "ALLOWED_IMAGE_TYPES">>,
          dirs_, files_, << >>)
DestPath(character_id, pose, ext) == <<character_id, pose, ext>>

\* Variant: the character directory is made before the file name is checked.
save_character_asset_mkdirFirst(dirs_, files_, character_id, pose, filename) ==
    LET ext == lower(suffix(filename))
    IN  IF ext \notin ALLOWED_IMAGE_TYPES
        THEN InvalidImageType(ext, dirs_ \cup {character_id}, files_)
        ELSE Saved("", << >>, dirs_ \cup {character_id},
                   files_ \cup {DestPath(character_id, pose, ext)},
                   DestPath(character_id, pose, ext))

\* AssetManager.save_character_asset (with _validate_image_file, _save_file)
save_character_asset(dirs_, files_, character_id, pose, filename) ==
    LET ext == lower(suffix(filename))
    IN  IF ext \notin ALLOWED_IMAGE_TYPES
        THEN InvalidImageType(ext, dirs_, files_)
        ELSE Saved("", << >>, dirs_ \cup {character_id},
                   files_ \cup {DestPath(character_id, pose, ext)},
                   DestPath(character_id, pose, ext))

\* Inputs of the upload.
CharacterIds == {1, 2}
ExistingCharacters == {1}
UploadPoses == {"neutral", "talking"}
NoFilename == << >>
Filenames ==
    {<<"p", ".", "t", "x", "t">>, <<"p", ".", "p", "n", "g">>,
     <<"p", ".", "P", "N", "G">>, <<"p", ".", "J", "p", "g">>,
     <<"p", ".", "j", "p", "e", "g">>, <<"p", ".", "w", "e", "b", "p">>,
     <<"p", ".", "g", "i", "f">>, <<"p">>, <<".", "p", "n", "g">>,
     <<"p", ".", "p", "n", "g", ".", "t", "x", "t">>,
     <<"p", ".", "t", "x", "t", ".", "p", "n", "g">>,
     <<"p", ".", "p", "n", "g", "/", "p">>, NoFilename}

Upload(character_id, pose, filename, code, detail) ==
    [op |-> "upload_character_asset", character_id |-> character_id, asset_id |-> 0,
     pose |-> pose, filename |-> filename, code |-> code, detail |-> detail]
DeleteResponse(character_id, asset_id, code, detail) ==
    [op |-> "delete_character_asset", character_id |-> character_id,
     asset_id |-> asset_id, pose |-> "", filename |-> << >>, code |-> code,
     detail |-> detail]

\* The methods class CharacterRepository defines.
CharacterRepositoryMethods ==
    {"create", "get_by_id", "list_characters", "add_asset", "delete_asset"}

\* INTEGER PRIMARY KEY of character_assets: largest id in use + 1
NextAssetId(assets) ==
    IF assets = << >> THEN 1 ELSE Max({assets[i].id : i \in DOMAIN assets}) + 1

\* What the test suite expects of get_asset_by_id: the row, or none.
get_asset_by_id(assets, asset_id) ==
    {i \in DOMAIN assets : assets[i].id = asset_id}

\* CharacterRepository.delete_asset: the table without the row
RECURSIVE repo_delete_asset(_, _)
repo_delete_asset(assets, asset_id) ==
    IF assets = << >> THEN << >>
    ELSE IF Head(assets).id = asset_id THEN repo_delete_asset(Tail(assets), asset_id)
    ELSE <<Head(assets)>> \o repo_delete_asset(Tail(assets), asset_id)

\* POST /characters/{character_id}/assets
upload_character_asset(character_id, pose, filename) ==
    /\ Len(asset_rows) < MaxUploads
    /\ NextAssetId(asset_rows) <= MaxUploads
    /\ IF character_id \notin ExistingCharacters
       THEN /\ upload' = Upload(character_id, pose, filename, 404,
                                <<"Character not found">>)
            /\ UNCHANGED <<dirs, files, asset_rows>>
       ELSE LET given == IF filename = NoFilename
                         THEN <<pose, ".", "p", "n", "g">> ELSE filename
                saved == save_character_asset(dirs, files, character_id, pose, given)
            IN  /\ dirs' = saved.dirs
                /\ files' = saved.files
                /\ IF saved.raised = "ValueError"
                   THEN /\ upload' = Upload(character_id, pose, filename, 400,
                                            saved.message)
                        /\ UNCHANGED asset_rows
                   ELSE /\ asset_rows' = Append(asset_rows,
                               [id |-> NextAssetId(asset_rows),
                                character_id |-> character_id, pose |-> pose,
                                file_path |-> saved.path])
                        /\ upload' = Upload(character_id, pose, filename, 200, << >>)
    /\ UNCHANGED <<wfvars, timevars, xvars, cvars, dvars>>

\* DELETE /characters/{character_id}/assets/{asset_id}. The files the table
\* names were stored by save_character_asset under the characters directory,
\* so delete_asset unlinks the one that exists and returns False otherwise.
delete_character_asset(character_id, asset_id) ==
    /\ IF "get_asset_by_id" \notin CharacterRepositoryMethods
       THEN /\ upload' = DeleteResponse(character_id, asset_id, 500,
                              <<"'CharacterRepository' object has no attribute">>)
            /\ UNCHANGED <<dirs, files, asset_rows>>
       ELSE /\ files' = files \ {asset_rows[i].file_path :
                                    i \in get_asset_by_id(asset_rows, asset_id)}
            /\ asset_rows' = repo_delete_asset(asset_rows, asset_id)
            /\ upload' = IF get_asset_by_id(asset_rows, asset_id) = {}
                         THEN DeleteResponse(character_id, asset_id, 404,
                                             <<"Asset not found">>)
                         ELSE DeleteResponse(character_id, asset_id, 200, << >>)
            /\ UNCHANGED dirs
    /\ UNCHANGED <<wfvars, timevars, xvars, cvars, dvars>>

UploadInit ==
    /\ rows = << >>
    /\ tasks = << >>
    /\ script_generator = None
    /\ voiceover_service = None
    /\ settings = [claude_api_key |-> TRUE, elevenlabs_api_key |-> TRUE]
    /\ last = Event("startup", 0, 0, "", << >>)
    /\ NoTimingRun
    /\ NoTextRun
    /\ NoRenderRun
    /\ NoUploadRun
    /\ NoDeleteRun

UploadNext ==
    \/ \E character_id \in CharacterIds, pose \in UploadPoses, filename \in Filenames :
          upload_character_asset(character_id, pose, filename)
    \/ \E character_id \in CharacterIds, asset_id \in 1..MaxUploads :
          delete_character_asset(character_id, asset_id)

UploadSpec == UploadInit /\ [][UploadNext]_vars

\* ---------------------------------------------------------------------------
\* AssetManager.delete_asset. A path is a sequence of components, a component a
\* sequence of characters; paths are absolute and the tree holds no symbolic
\* links.
Slash == "/"
DotDot == <<".", ".">>
AssetsDir == <<<<"a">>>>
SiblingDir == <<<<"a", "b">>>>
Directories == {<< >>, AssetsDir, SiblingDir}
DiskFiles ==
    {Append(AssetsDir, <<"f">>), Append(SiblingDir, <<"f">>), <<<<"f">>>>}

Parent(dir) == IF dir = << >> THEN << >> ELSE SubSeq(dir, 1, Len(dir) - 1)

\* os.stat as Path.exists() uses it: the entry the path leads to, taking one
\* component at a time from the directory `cur`; NoEntry when a component is
\* missing or a file stands where a directory is needed
NoEntry == <<<<"ENOENT">>>>
RECURSIVE stat(_, _, _)
stat(cur, rest, files_) ==
    IF rest = << >> THEN cur
    ELSE LET next == IF Head(rest) = DotDot THEN Parent(cur)
                     ELSE Append(cur, Head(rest))
         IN  IF Tail(rest) = << >>
             THEN IF next \in Directories \cup files_ THEN next ELSE NoEntry
             ELSE IF next \in Directories THEN stat(next, Tail(rest), files_)
                  ELSE NoEntry
exists(file_path, files_) == stat(<< >>, file_path, files_) # NoEntry

\* Path.resolve(): ".." components folded away
RECURSIVE resolve_loop(_, _)
resolve_loop(cur, rest) ==
    IF rest = << >> THEN cur
    ELSE resolve_loop(IF Head(rest) = DotDot THEN Parent(cur)
                      ELSE Append(cur, Head(rest)), Tail(rest))
resolve(path) == resolve_loop(<< >>, path)

\* str(path) of an absolute path, as characters
RECURSIVE str(_)
str(path) ==
    IF path = << >> THEN <<Slash>>
    ELSE IF Len(path) = 1 THEN <<Slash>> \o path[1]
    ELSE str(SubSeq(path, 1, Len(path) - 1)) \o <<Slash>> \o path[Len(path)]

OutsideAssets == "Cannot delete files outside assets directory"
Deleted(file_path, raised, message, result) ==
    [file_path |-> file_path, raised |-> raised, message |-> message,
     result |-> result]

\* AssetManager.delete_asset
delete_asset(file_path, files_) ==
    IF ~exists(file_path, files_)
    THEN [out |-> Deleted(file_path, "", "", "False"), files |-> files_]
    ELSE IF ~StartsWith(str(resolve(file_path)), str(resolve(AssetsDir)))
    THEN [out |-> Deleted(file_path, "ValueError", OutsideAssets, None),
          files |-> files_]
    ELSE IF resolve(file_path) \in Directories
    THEN [out |-> Deleted(file_path, "IsADirectoryError", "", None), files |-> files_]
    ELSE [out |-> Deleted(file_path, "", "", "True"),
          files |-> files_ \ {resolve(file_path)}]

\* Inputs of the deletion.
Components == {<<"a">>, <<"a", "b">>, <<"f">>, DotDot}
RECURSIVE PathsOfLength(_)
PathsOfLength(n) ==
    IF n = 0 THEN {<< >>}
    ELSE {Append(p, c) : p \in PathsOfLength(n - 1), c \in Components}
FilePaths == UNION {PathsOfLength(n) : n \in 1..MaxPathLen}

DeleteAsset ==
    \E file_path \in FilePaths :
        /\ deleted' = delete_asset(file_path, disk).out
        /\ disk' = delete_asset(file_path, disk).files
        /\ UNCHANGED <<wfvars, timevars, xvars, cvars, uvars>>

DeleteInit ==
    /\ rows = << >>
    /\ tasks = << >>
    /\ script_generator = None
    /\ voiceover_service = None
    /\ settings = [claude_api_key |-> TRUE, elevenlabs_api_key |-> TRUE]
    /\ last = Event("startup", 0, 0, "", << >>)
    /\ NoTimingRun
    /\ NoTextRun
    /\ NoRenderRun
    /\ NoUploadRun
    /\ disk \in SUBSET DiskFiles
    /\ deleted = NotDeleted

DeleteNext == DeleteAsset

DeleteSpec == DeleteInit /\ [][DeleteNext]_vars

\* ---------------------------------------------------------------------------
\* VideoProjectRepository.update_status called on its own, on any stored row.
StoredRows ==
    [status : VideoProjectStatus, script_json : {None, "A"}, takeaway : {None, "ta"},
     voiceover_path : {None, "voiceovers/1/combined_voiceover.mp3"},
     output_path : {None}, error_message : {NoMessage, <<"old">>},
     reviewed_by : {None, "admin"}, reviewed_at : {None}]
Stores ==
    {<< >>} \cup {<<r>> : r \in StoredRows} \cup {<<r, NewProject>> : r \in StoredRows}
StatusInputs == VideoProjectStatus
MessageInputs == {NoMessage, <<"boom">>}
RepoIds == {1, 2, 3}

UpdateStatus ==
    \E project_id \in RepoIds, status \in StatusInputs, error_message \in MessageInputs :
        /\ rows' = update_status(rows, project_id, status, error_message)
        /\ last' = Event("update_status", project_id,
                         IF get_by_id(rows, project_id) THEN "project" ELSE None,
                         "", <<status, error_message>>)
        /\ UNCHANGED <<tasks, script_generator, voiceover_service, settings>>
        /\ UNCHANGED tvars

RepoInit ==
    /\ rows \in Stores
    /\ tasks = << >>
    /\ script_generator = None
    /\ voiceover_service = None
    /\ settings = [claude_api_key |-> TRUE, elevenlabs_api_key |-> TRUE]
    /\ last = Event("startup", 0, 0, "", << >>)
    /\ NoTimingRun
    /\ NoTextRun
    /\ NoRenderRun
    /\ NoUploadRun
    /\ NoDeleteRun

RepoNext == UpdateStatus

RepoSpec == RepoInit /\ [][RepoNext]_vars

\* ================================================================ claims

TaskOps == {"generate_script_task", "generate_voiceover_task", "render_video_task"}

\* Task t ends in this step.
Ends(t) == tasks[t].pc # "done" /\ tasks'[t].pc = "done"

\* The task dispatched by this step, if any.
Dispatched == {i \in DOMAIN tasks' : i \notin DOMAIN tasks}

\* notes occurs in msg as a contiguous run of tokens.
Contains(msg, notes) ==
    \E i \in 1..(Len(msg) + 1) :
        /\ i + Len(notes) - 1 <= Len(msg)
        /\ SubSeq(msg, i, i + Len(notes) - 1) = notes

\* C1: a render request for a project whose status is not AUDIO_READY is
\* rejected with 400 "must be in AUDIO_READY status", changes no field of the
\* project and dispatches no task; a render task is dispatched only by a
\* render request that found AUDIO_READY and set RENDERING.
C1_RenderOnlyFromAudioReady ==
    [][ /\ ( /\ last'.op = "render_project"
             /\ get_by_id(rows, last'.pid)
             /\ rows[last'.pid].status # AUDIO_READY )
           => /\ last'.code = 400
              /\ last'.detail = "Project must be in AUDIO_READY status to render"
              /\ rows' = rows
              /\ tasks' = tasks
        /\ \A i \in Dispatched : tasks'[i].kind = "render" =>
              /\ last'.op = "render_project" /\ last'.code = 200
              /\ get_by_id(rows, tasks'[i].pid)
              /\ rows[tasks'[i].pid].status = AUDIO_READY
              /\ rows'[tasks'[i].pid].status = RENDERING
      ]_vars

C1_Witness ==
    /\ last.op = "render_project" /\ last.code = 400
    /\ get_by_id(rows, last.pid)
    /\ rows[last.pid].status = DRAFT
    /\ \A i \in DOMAIN tasks : tasks[i].kind # "render"

\* C2: approve_project changes a project only when its status is DRAFT: it
\* sets APPROVED, records reviewed_by and reviewed_at, and exactly one
\* voiceover task is dispatched; for a missing project or any other status
\* the answer is 400 "not in DRAFT status", no field changes and no task is
\* dispatched.
C2_ApproveOnlyFromDraft ==
    [][ last'.op = "approve_project" =>
          LET pid == last'.pid IN
          IF get_by_id(rows, pid) /\ rows[pid].status = DRAFT
          THEN /\ last'.code = 200
               /\ rows'[pid].status = APPROVED
               /\ rows'[pid].reviewed_by = last'.arg[1]
               /\ rows'[pid].reviewed_at # None
               /\ rows'[pid].script_json = rows[pid].script_json
               /\ rows'[pid].takeaway = rows[pid].takeaway
               /\ rows'[pid].voiceover_path = rows[pid].voiceover_path
               /\ rows'[pid].output_path = rows[pid].output_path
               /\ Cardinality(Dispatched) = 1
               /\ \A i \in Dispatched :
                     tasks'[i].kind = "voiceover" /\ tasks'[i].pid = pid
          ELSE /\ last'.code = 400
               /\ last'.detail = "Project not found or not in DRAFT status"
               /\ rows' = rows
               /\ tasks' = tasks
      ]_vars

C2_Witness ==
    /\ last.op = "approve_project" /\ last.code = 200 /\ last.arg = <<"admin">>
    /\ rows[last.pid].status = APPROVED
    /\ rows[last.pid].reviewed_by = "admin"
    /\ tasks[Len(tasks)].kind = "voiceover" /\ tasks[Len(tasks)].pc = "queued"

Successor(st) ==
    CASE st = DRAFT -> APPROVED
      [] st = APPROVED -> AUDIO_READY
      [] st = AUDIO_READY -> RENDERING
      [] st = RENDERING -> COMPLETED
      [] OTHER -> "no successor"

\* The status the dispatching request leaves for the task to start in.
StartedIn(op) ==
    CASE op = "generate_script_task" -> DRAFT
      [] op = "generate_voiceover_task" -> APPROVED
      [] op = "render_video_task" -> RENDERING

C4_TaskFailureRecorded ==
    [][ \A t \in DOMAIN tasks :
          (last'.op \in TaskOps /\ tasks'[t] # tasks[t] /\ last'.code = "failed") =>
             /\ tasks'[t].pc = "done"
             /\ last'.op = TaskName(tasks[t].kind)
             /\ get_by_id(rows, tasks[t].pid) =>
                   /\ rows'[tasks[t].pid].status = FAILED
                   /\ rows'[tasks[t].pid].error_message # NoMessage
                   /\ rows'[tasks[t].pid].error_message[1] = FailurePrefix(tasks[t].kind)
                   /\ rows'[tasks[t].pid].error_message[2] = last'.detail
      ]_vars

C4_Witness ==
    /\ last.op = "generate_voiceover_task" /\ last.code = "failed"
    /\ last.detail = NotConfigured("elevenlabs")
    /\ get_by_id(rows, last.pid)
    /\ rows[last.pid].status = FAILED
    /\ rows[last.pid].error_message =
          <<"Voiceover generation failed: ", NotConfigured("elevenlabs")>>

\* C5: when the voiceover task of an accepted approve ends and no other
\* request touched the project meanwhile, the project is AUDIO_READY, or
\* FAILED with an error_message; it is not left in APPROVED.
C5_VoiceoverTaskSettles ==
    [][ \A t \in DOMAIN tasks :
          (tasks[t].kind = "voiceover" /\ Ends(t) /\ tasks[t].clean) =>
             /\ get_by_id(rows', tasks[t].pid)
             /\ rows'[tasks[t].pid].status \in {AUDIO_READY, FAILED}
             /\ rows'[tasks[t].pid].status = FAILED =>
                   rows'[tasks[t].pid].error_message # NoMessage
      ]_vars

\* C6: when the render task of an accepted render request ends, the project
\* (if it still exists) is not left in RENDERING, whatever script edits
\* happened around the request.
C6_RenderTaskSettles ==
    [][ \A t \in DOMAIN tasks :
          (tasks[t].kind = "render" /\ Ends(t) /\ get_by_id(rows', tasks[t].pid)) =>
             rows'[tasks[t].pid].status # RENDERING
      ]_vars

FrozenStatuses == {APPROVED, AUDIO_READY, RENDERING, COMPLETED}

\* C7: while a project's status is APPROVED or later, no step other than
\* regenerate changes its script_json or takeaway.
C7_ScriptFrozen ==
    [][ \A p \in DOMAIN rows \cap DOMAIN rows' :
          (rows[p].status \in FrozenStatuses /\ last'.op # "regenerate_script") =>
             /\ rows'[p].script_json = rows[p].script_json
             /\ rows'[p].takeaway = rows[p].takeaway
      ]_vars

\* C8: reject on an existing project sets DRAFT and an error_message that
\* contains the notes, and leaves script, voiceover path and output path as
\* they were; on a missing project it answers 404 and changes nothing.
C8_RejectReturnsToDraft ==
    [][ last'.op = "reject_project" =>
          LET pid == last'.pid IN
          IF get_by_id(rows, pid)
          THEN /\ last'.code = 200
               /\ rows'[pid].status = DRAFT
               /\ rows'[pid].error_message # NoMessage
               /\ Contains(rows'[pid].error_message, last'.arg)
               /\ rows'[pid].script_json = rows[pid].script_json
               /\ rows'[pid].takeaway = rows[pid].takeaway
               /\ rows'[pid].voiceover_path = rows[pid].voiceover_path
               /\ rows'[pid].output_path = rows[pid].output_path
          ELSE /\ last'.code = 404
               /\ rows' = rows
               /\ tasks' = tasks
      ]_vars

C8_Witness ==
    /\ last.op = "reject_project" /\ last.code = 200 /\ last.arg = <<"fix">>
    /\ rows[last.pid].status = DRAFT
    /\ rows[last.pid].error_message = <<"Rejected: ", "fix">>
    /\ rows[last.pid].voiceover_path # None
    /\ rows[last.pid].script_json # None

\* C9: for N >= 1 lines of positive total length and a duration D > 0 the
\* calculation returns N windows in script order: the first starts at 0,
\* each starts where the previous one ends, the last ends at D, window i
\* has line i's role and length D * len(text_i) / sum of len(text_j)
\* (evaluated in floating point, as every time in the code is).
C9_TimingWindows ==
    ( /\ timings.by # "none"
      /\ Len(script) >= 1
      /\ total_chars(script) > 0
      /\ total_duration # FloatZero )
    => LET w == timings.windows
           N == Len(script)
           D == total_duration
           T == total_chars(script)
       IN  /\ timings.raised = ""
           /\ Len(w) = N
           /\ w[1].start = FloatZero
           /\ \A i \in 1..(N - 1) : w[i + 1].start = w[i].end
           /\ w[N].end = D
           /\ \A i \in 1..N :
                 /\ w[i].role = script[i].speaker_role
                 /\ w[i].end = FAdd(w[i].start, FMul(TrueDiv(Len(script[i].line), T), D))

Scenario ==
    /\ timings.by # "none"
    /\ script = ScenarioScript
    /\ total_duration = Float(10, 0)

\* C10 as stated: "Hi?" / "Hello!" over 10 s gives (0, 5) and (5, 10).
C10_ScenarioEqualSplit ==
    Scenario =>
        timings.windows =
            << [start |-> FloatZero, end |-> Float(5, 0), role |-> QUESTIONER],
               [start |-> Float(5, 0), end |-> Float(10, 0), role |-> EXPLAINER] >>

\* 3.333333333333333 = 0x1.aaaaaaaaaaaaap+1, the float just below 10/3
ThreeAndAThird ==
    [m |-> [i \in 1..Precision |-> IF i = Precision \/ i % 2 = 0 THEN 1 ELSE 0],
     e |-> 0 - 51]

\* C10 as amended: "Hi?" (3 characters) / "Hello!" (6 characters) over 10 s
\* gives a 1 : 2 split, (0, 3.333333333333333, questioner) and
\* (3.333333333333333, 10, explainer).
C10_ScenarioProportionalSplit ==
    Scenario =>
        timings.windows =
            << [start |-> FloatZero, end |-> ThreeAndAThird, role |-> QUESTIONER],
               [start |-> ThreeAndAThird, end |-> Float(10, 0), role |-> EXPLAINER] >>

C10_Witness ==
    /\ Scenario
    /\ timings.by = "FFmpegRenderer"
    /\ timings.raised = ""
    /\ Len(timings.windows) = 2

\* C11: when the summed text length is 0 (no lines, or only empty lines) the
\* calculation returns a single zero-width window or raises ValidationError;
\* it neither fails with an arithmetic error nor returns anything else.
C11_ZeroLengthGuarded ==
    (timings.by # "none" /\ total_chars(script) = 0) =>
        \/ timings.raised = "ValidationError"
        \/ /\ timings.raised = ""
           /\ Len(timings.windows) = 1
           /\ timings.windows[1].start = timings.windows[1].end

EscapeRan == text_out.by \in {"FFmpegRenderer._escape_text", "LipSyncRenderer._esc"}

\* What one character becomes when it alone is escaped.
EscapeOf(c) ==
    CASE c = Backslash -> <<Backslash, Backslash>>
      [] c = Quote -> <<Quote, Backslash, Quote, Quote>>
      [] c = Colon -> <<Backslash, Colon>>
      [] c = Percent -> <<Backslash, Percent>>
      [] OTHER -> <<c>>

RECURSIVE EscapedByCharacter(_)
EscapedByCharacter(t) ==
    IF t = << >> THEN << >> ELSE EscapeOf(Head(t)) \o EscapedByCharacter(Tail(t))

\* The four substitutions undone, the last one first.
Unescape(e) ==
    replace(replace(replace(replace(e,
        <<Backslash, Percent>>, <<Percent>>),
        <<Backslash, Colon>>, <<Colon>>),
        <<Quote, Backslash, Quote, Quote>>, <<Quote>>),
        <<Backslash, Backslash>>, <<Backslash>>)

\* C12: escaping is reversible: undoing it gives back the text (hence two
\* distinct texts never share an escaped output); every character is
\* escaped exactly once, so a backslash introduced for a quote, colon or
\* percent is not escaped again; a text without the four characters is
\* returned unchanged.
C12_EscapeReversible ==
    EscapeRan =>
        /\ Unescape(text_out.value) = arg_text
        /\ text_out.value = EscapedByCharacter(arg_text)
        /\ (\A i \in DOMAIN arg_text :
               arg_text[i] \notin {Backslash, Quote, Colon, Percent})
           => text_out.value = arg_text

C12_Witness ==
    /\ text_out.by = "LipSyncRenderer._esc"
    /\ arg_text = <<Quote, Backslash, Colon>>
    /\ text_out.value =
          <<Quote, Backslash, Quote, Quote, Backslash, Backslash, Backslash, Colon>>

WrapRan == text_out.by \in {"FFmpegRenderer._wrap_text", "LipSyncRenderer._wrap"}

\* The lines the wrap joined with the line break.
WrappedLines ==
    IF text_out.by = "FFmpegRenderer._wrap_text"
    THEN ffmpeg_wrap_lines(arg_text, arg_max_chars)
    ELSE lipsync_wrap_lines(arg_text, arg_max_chars)

\* s cut at every space, empty pieces kept.
RECURSIVE CutAtSpaces(_, _, _)
CutAtSpaces(s, piece, out) ==
    IF s = << >> THEN Append(out, piece)
    ELSE IF Head(s) = Space THEN CutAtSpaces(Tail(s), << >>, Append(out, piece))
    ELSE CutAtSpaces(Tail(s), Append(piece, Head(s)), out)

RECURSIVE WordsOfLines(_)
WordsOfLines(lines) ==
    IF lines = << >> THEN << >>
    ELSE CutAtSpaces(Head(lines), << >>, << >>) \o WordsOfLines(Tail(lines))

\* C13: for every width W >= 1 and every text, the wrapped output is its
\* lines joined by the inserted breaks; cutting the lines at spaces gives
\* exactly the text's whitespace-separated words, in order, none dropped,
\* duplicated or split; no line is empty.
C13_WrapPreservesWords ==
    WrapRan =>
        /\ text_out.value = join(LineBreak, WrappedLines)
        /\ \A i \in DOMAIN WrappedLines : WrappedLines[i] # << >>
        /\ WordsOfLines(WrappedLines) = split(arg_text)

C13_Witness ==
    /\ text_out.by = "FFmpegRenderer._wrap_text"
    /\ arg_text = <<"a", Space, "a", Space, "b">>
    /\ arg_max_chars = 4
    /\ text_out.value = <<"a", Space, "a", Backslash, "n", "b">>

CommandBuilt == cmd.by # "none" /\ cmd.raised = ""

\* The input declared at position k of the command (the first is 0).
DeclaredAt(k) == cmd.inputs[k + 1]
Positions == {k \in 0..(Len(cmd.inputs) - 1) : TRUE}

Available(role, pose) ==
    /\ HasKey(character_assets, role)
    /\ HasKey(Get(character_assets, role), pose)
    /\ Get(Get(character_assets, role), pose).exists

\* The pose file a scaled label stands for: [char_{role}_{pose}] in
\* FFmpegRenderer, [{role}_closed] / [{role}_open] in LipSyncRenderer.
PoseFileOf(label) ==
    IF cmd.by = "FFmpegRenderer" THEN PosePath(label.name[2], label.name[3])
    ELSE LET role == label.name[1]
             poses == Get(character_assets, role)
         IN  IF label.name[2] = "closed"
             THEN PosePath(role, IF HasKey(poses, "mouth_closed")
                                 THEN "mouth_closed" ELSE "neutral")
             ELSE PosePath(role, IF HasKey(poses, "mouth_open")
                                 THEN "mouth_open" ELSE "talking")

PoseStages == {i \in DOMAIN cmd.filter_complex : cmd.filter_complex[i].inputs[1].index >= 2}
MusicDeclared == \E k \in Positions : DeclaredAt(k).path = MusicFile

\* C14: in a built command the background is input 0 and the voiceover input
\* 1; the inputs after them are pose files that exist, each declared once,
\* and the music track, when declared, comes after the last pose; every
\* [k:v] of a pose in the filter graph names the position at which that
\* pose's file is declared.
C14_IndicesMatchDeclarations ==
    CommandBuilt =>
        /\ Len(cmd.inputs) >= 2
        /\ DeclaredAt(0).path = BackgroundFile
        /\ DeclaredAt(1).path = VoiceoverFile
        /\ \A k \in Positions : \A j \in Positions :
               DeclaredAt(k).path = DeclaredAt(j).path => k = j
        /\ \A k \in Positions :
               k >= 2 =>
                   \/ /\ DeclaredAt(k).path = MusicFile
                      /\ k = Len(cmd.inputs) - 1
                   \/ /\ DeclaredAt(k).path[1] = "characters"
                      /\ Available(DeclaredAt(k).path[2], DeclaredAt(k).path[3])
        /\ \A i \in PoseStages :
               LET stage == cmd.filter_complex[i]
                   k == stage.inputs[1].index
               IN  /\ k \in Positions
                   /\ DeclaredAt(k).path = PoseFileOf(stage.output)

C14_Witness ==
    /\ cmd.by = "FFmpegRenderer"
    /\ cmd.raised = ""
    /\ Len(cmd.inputs) = 5
    /\ DeclaredAt(2).path = PosePath(QUESTIONER, "talking")
    /\ DeclaredAt(3).path = PosePath(EXPLAINER, "neutral")
    /\ DeclaredAt(4).path = MusicFile
    /\ \E i \in PoseStages :
          /\ cmd.filter_complex[i].inputs[1].index = 3
          /\ cmd.filter_complex[i].output = Label(<<"char", EXPLAINER, "neutral">>)

MusicGiven == music_path # NoMusic
OverlayStages ==
    {i \in DOMAIN cmd.filter_complex : cmd.filter_complex[i].filter = "overlay"}

\* C15: with no character images the built command declares the background
\* as input 0, the voiceover as input 1 and, when a music path is given, the
\* music as one further input, and nothing else; its filter graph has no
\* overlay stage and no reference to an input 2 or higher.
C15_NoCharacterImages ==
    (CommandBuilt /\ character_assets = << >>) =>
        /\ Len(cmd.inputs) = (IF MusicGiven THEN 3 ELSE 2)
        /\ DeclaredAt(0).path = BackgroundFile
        /\ DeclaredAt(1).path = VoiceoverFile
        /\ MusicGiven => DeclaredAt(2).path = MusicFile
        /\ OverlayStages = {}
        /\ PoseStages = {}

\* x < y and x <= y for floats that are zero or positive
FLess(x, y) ==
    IF y = FloatZero THEN FALSE
    ELSE IF x = FloatZero THEN TRUE
    ELSE \/ x.e < y.e
         \/ /\ x.e = y.e
            /\ \E i \in 1..Precision :
                  /\ x.m[i] < y.m[i]
                  /\ \A j \in (i + 1)..Precision : x.m[j] = y.m[j]
FLeq(x, y) == x = y \/ FLess(x, y)

\* The float a filter reads from a time printed with two decimals.
Parse(hundredths) == TrueDiv(hundredths, 100)

\* The value at time t of a speaking condition: non-zero when some
\* between(t,lo,hi) of it is.
Speaking(cond, t) ==
    \E i \in DOMAIN cond : FLeq(Parse(cond[i].lo), t) /\ FLeq(t, Parse(cond[i].hi))

InWindowOf(role, t) ==
    \E i \in DOMAIN line_timings :
        /\ line_timings[i].role = role
        /\ FLeq(line_timings[i].start, t)
        /\ FLeq(t, line_timings[i].end)

\* The times at which a condition and the windows can differ: the ends of the
\* windows, as computed and as printed.
Instants ==
    UNION {{line_timings[i].start, line_timings[i].end,
            Parse(Format2f(line_timings[i].start)),
            Parse(Format2f(line_timings[i].end))} : i \in DOMAIN line_timings}

\* The overlays that are switched on by the speaking condition itself, and
\* the role each belongs to.
SpeakingStages ==
    {i \in OverlayStages : cmd.filter_complex[i].enable.op \in {"cond", "open"}}
RoleOfOverlay(stage) ==
    IF cmd.by = "FFmpegRenderer" THEN stage.inputs[2].name[2] ELSE stage.inputs[2].name[1]

\* C16: for a role with both poses the speaking condition has one between()
\* per window of that role and none of the other role, and at every time t
\* it is non-zero exactly when t lies in one of the role's windows.
C16_SpeakingConditionIsWindowUnion ==
    CommandBuilt =>
        \A i \in SpeakingStages :
            LET stage == cmd.filter_complex[i]
                role == RoleOfOverlay(stage)
            IN  /\ Len(stage.enable.cond) = Len(speaking_windows(line_timings, role))
                /\ \A t \in Instants :
                       Speaking(stage.enable.cond, t) <=> InWindowOf(role, t)

PosePairs == {<<"neutral", "talking">>, <<"mouth_closed", "mouth_open">>}
AvailablePoses(role) ==
    {PoseOrder[i] : i \in {j \in DOMAIN PoseOrder : Available(role, PoseOrder[j])}}

\* An overlay without enable condition whose picture is the file of the pose.
ShownUnconditionally(role, pose) ==
    \E i \in OverlayStages :
        /\ cmd.filter_complex[i].enable = NoEnable
        /\ \E j \in 1..(i - 1) :
              /\ cmd.filter_complex[j].output = cmd.filter_complex[i].inputs[2]
              /\ cmd.filter_complex[j].inputs[1].index \in Positions
              /\ DeclaredAt(cmd.filter_complex[j].inputs[1].index).path
                     = PosePath(role, pose)

\* C17: when the only available pose of a role is one pose of a pose pair,
\* the graph of either renderer has an overlay for the role that shows that
\* pose with no enable condition.
C17_SinglePoseShown ==
    CommandBuilt =>
        \A role \in CharacterRole : \A pair \in PosePairs : \A n \in {1, 2} :
            AvailablePoses(role) = {pair[n]} => ShownUnconditionally(role, pair[n])

ChainFilters == {"scale,pad", "overlay", "drawtext,drawtext", "copy"}
ChainStages ==
    {i \in DOMAIN cmd.filter_complex : cmd.filter_complex[i].filter \in ChainFilters}
TextStages ==
    {i \in DOMAIN cmd.filter_complex : cmd.filter_complex[i].filter = "drawtext,drawtext"}
\* The uses of a label as the input of a stage.
UsesOf(label) ==
    {<<i, n>> \in (DOMAIN cmd.filter_complex) \X {1, 2} :
        /\ n \in DOMAIN cmd.filter_complex[i].inputs
        /\ cmd.filter_complex[i].inputs[n] = label}

\* C18: FFmpegRenderer builds a graph for every script and set of poses, and
\* the graph is one linear chain: the first stage produces [bg]; every later
\* overlay or text stage and the final copy take the label of the chain stage
\* before them; the text stage of line i produces [v{i}]; the last stage
\* produces [outv]; labels are fresh, every label consumed was produced
\* earlier, and every label but [outv] is consumed exactly once, later.
\* Without lines and poses the graph is the background stage and the copy.
C18_LinearChain ==
    cmd.by = "FFmpegRenderer" =>
        LET fc == cmd.filter_complex
        IN  /\ cmd.raised = ""
            /\ fc[1].output = Label(<<"bg">>)
            /\ fc[Len(fc)].filter = "copy"
            /\ fc[Len(fc)].output = OUTV
            /\ \A a \in ChainStages : \A b \in ChainStages :
                   (a < b /\ \A c \in ChainStages : ~(a < c /\ c < b))
                   => fc[b].inputs[1] = fc[a].output
            /\ Cardinality(TextStages) = Len(script)
            /\ \A i \in TextStages :
                   fc[i].output = Label(<<VLabels[Cardinality({j \in TextStages : j < i}) + 1]>>)
            /\ \A i \in DOMAIN fc : \A j \in DOMAIN fc :
                   fc[i].output = fc[j].output => i = j
            /\ \A i \in DOMAIN fc : \A n \in DOMAIN fc[i].inputs :
                   fc[i].inputs[n].index < 0
                   => \E j \in 1..(i - 1) : fc[j].output = fc[i].inputs[n]
            /\ \A j \in DOMAIN fc :
                   fc[j].output # OUTV
                   => /\ Cardinality(UsesOf(fc[j].output)) = 1
                      /\ \A use \in UsesOf(fc[j].output) : use[1] > j
            /\ (script = << >> /\ character_assets = << >>) => Len(fc) = 2

Rendered == render.by # "none"

\* C19: render_video returns a result only after exit code 0; after another
\* exit code it raises an error whose message holds the captured stderr
\* unchanged, does not probe the output and returns nothing; after exit code 0
\* it probes the duration of the output file and returns the result.
C19_ResultOnlyAfterZeroExit ==
    Rendered =>
        /\ render.result # << >> => render.returncode = 0
        /\ render.returncode # 0 =>
               /\ render.raised # ""
               /\ \E i \in DOMAIN render.message : render.message[i] = render.stderr
               /\ render.probed = << >>
               /\ render.result = << >>
        /\ render.returncode = 0 =>
               /\ render.raised = ""
               /\ \E i \in DOMAIN render.probed : render.probed[i] = "ffprobe"
               /\ render.result = <<RenderResult(cmd.output)>>

C19_Witness ==
    /\ render.by = "LipSyncRenderer"
    /\ render.returncode = 1
    /\ render.raised = "RuntimeError"
    /\ render.message =
          <<"FFmpeg rendering failed: ", "Invalid data found when processing input">>
    /\ render.result = << >>

\* The upload just answered had a file name whose extension, lower-cased, is
\* not an allowed image type.
InvalidTypeUploaded ==
    /\ upload'.code # 0
    /\ upload'.filename # NoFilename
    /\ lower(suffix(upload'.filename)) \notin ALLOWED_IMAGE_TYPES

\* C20: an upload whose file name has an extension that is not .png, .jpg,
\* .jpeg or .webp in any letter case creates no directory, no file and no
\* asset row, and for an existing character it is answered 400 with a
\* detail that starts "Invalid image type"; an allowed extension in capitals
\* is not rejected as invalid.
C20_InvalidTypeRejected ==
    [][/\ InvalidTypeUploaded =>
            /\ dirs' = dirs
            /\ files' = files
            /\ asset_rows' = asset_rows
            /\ upload'.character_id \in ExistingCharacters =>
                   /\ upload'.code = 400
                   /\ StartsWith(upload'.detail, <<"Invalid image type: ">>)
       /\ (upload'.code = 400) => InvalidTypeUploaded]_vars

C20_Witness ==
    /\ upload.code = 400
    /\ upload.filename = <<"p", ".", "t", "x", "t">>
    /\ upload.detail[1] = "Invalid image type: "
    /\ dirs = {}
    /\ files = {}
    /\ asset_rows = << >>

\* ---------------------------------------------------------------------------
\* C21: delete_asset removes a file only if it lies inside the assets
\* directory. For every existing path that resolves to a place outside the
\* assets directory (reached with ".." or lying in a sibling directory) the call
\* raises "Cannot delete files outside assets directory" and the file remains;
\* for a path that does not exist it returns False and changes nothing.
DeleteRan == deleted' # NotDeleted
IsPrefix(dir, path) == Len(dir) <= Len(path) /\ SubSeq(path, 1, Len(dir)) = dir
InsideAssets(path) == IsPrefix(AssetsDir, resolve(path))
C21_DeleteOnlyInsideAssets ==
    [][DeleteRan =>
        LET p == deleted'.file_path
        IN  /\ ~exists(p, disk) =>
                deleted'.raised = "" /\ deleted'.result = "False" /\ disk' = disk
            /\ (resolve(p) \in disk /\ exists(p, disk) /\ ~InsideAssets(p)) =>
                /\ deleted'.raised = "ValueError"
                /\ deleted'.message = OutsideAssets
                /\ disk' = disk
            /\ disk' # disk => InsideAssets(p)]_vars

\* ---------------------------------------------------------------------------
\* C22: update_status(id, s, msg) on an existing project sets the status to s
\* and the error_message to msg (to null when none is given, clearing an earlier
\* message), changes no other content field and no other row, and returns the
\* project; on an id that names no row it returns None and changes nothing.
ContentFields ==
    {"script_json", "takeaway", "voiceover_path", "output_path", "reviewed_by",
     "reviewed_at"}
C22_UpdateStatusFrame ==
    [][last'.op = "update_status" =>
        LET id == last'.pid
        IN  IF id \in DOMAIN rows
            THEN /\ DOMAIN rows' = DOMAIN rows
                 /\ rows'[id].status = last'.arg[1]
                 /\ rows'[id].error_message = last'.arg[2]
                 /\ \A f \in ContentFields : rows'[id][f] = rows[id][f]
                 /\ \A other \in DOMAIN rows \ {id} : rows'[other] = rows[other]
                 /\ last'.code = "project"
            ELSE rows' = rows /\ last'.code = None]_vars
\* An earlier message was cleared by a call without message; the script stayed.
C22_Witness ==
    /\ last.op = "update_status"
    /\ last.pid = 1
    /\ last.arg = <<COMPLETED, NoMessage>>
    /\ rows # << >>
    /\ rows[1].status = COMPLETED
    /\ rows[1].error_message = NoMessage
    /\ rows[1].script_json = "A"

\* ---------------------------------------------------------------------------
\* C23: when voiceover synthesis for an approved project succeeds, the task
\* stores the combined audio path as voiceover_path and sets the status to
\* AUDIO_READY with a null error_message; it does not end in FAILED.
SynthesisSucceeded(t) ==
    /\ tasks[t].kind = "voiceover"
    /\ tasks[t].pc = "awaiting"
    /\ tasks'[t].pc = "done"
    /\ last'.detail # "ElevenLabsError"
C23_VoiceoverStored ==
    [][ \A t \in DOMAIN tasks :
          (/\ SynthesisSucceeded(t)
           /\ get_by_id(rows, tasks[t].pid)
           /\ rows[tasks[t].pid].status = APPROVED) =>
             /\ rows'[tasks[t].pid].voiceover_path = VoiceoverPath(tasks[t].pid)
             /\ rows'[tasks[t].pid].status = AUDIO_READY
             /\ rows'[tasks[t].pid].error_message = NoMessage
      ]_vars

\* ---------------------------------------------------------------------------
\* C24: the renderer the render task uses has two timing modes: when the
\* voiceover step has left per-line segments, the window of line i lasts as
\* long as segment i was measured; the proportional estimate is used only when
\* there are no segment durations.
LipSyncTimed == timings.by = "LipSyncRenderer" /\ timings.raised = ""
C24_SegmentsPreferred ==
    (LipSyncTimed /\ scene_durations # NoSegments) =>
        \A i \in DOMAIN script :
            /\ timings.windows[i].start =
                  (IF i = 1 THEN FloatZero ELSE timings.windows[i - 1].end)
            /\ timings.windows[i].end =
                  FAdd(timings.windows[i].start, scene_durations[i])

\* ---------------------------------------------------------------------------
\* C25: for any project, at most one render task is dispatched and not yet
\* finished at any time, under every interleaving of render, reject,
\* regenerate and approve requests with background-task steps.
RenderTasksRunning(pid) ==
    {t \in DOMAIN tasks :
        tasks[t].kind = "render" /\ tasks[t].pid = pid /\ tasks[t].pc # "done"}
C27_MessageOnlyWhenFailedOrRejected ==
    \A p \in DOMAIN rows :
        /\ rows[p].status \in {APPROVED, AUDIO_READY, RENDERING, COMPLETED} =>
              rows[p].error_message = NoMessage
        /\ rows[p].error_message # NoMessage =>
              \/ rows[p].status = FAILED
              \/ rows[p].status = DRAFT /\ rows[p].error_message[1] = "Rejected: "

\* ---------------------------------------------------------------------------
\* C28: if a project is deleted while one of its background tasks is still
\* running, every later write of that task (script, path or status, the FAILED
\* write of the error handler included) finds no row and changes nothing: the
\* project is not recreated and no other project is modified.
StepsOf(t) == tasks'[t].pc # tasks[t].pc
C28_OrphanTaskWritesNothing ==
    [][ \A t \in DOMAIN tasks : (tasks[t].orphan /\ StepsOf(t)) => rows' = rows ]_vars

\* ---------------------------------------------------------------------------
\* C29: after any sequence of character-pose uploads and asset deletions, the
\* table and the disk agree: every remaining asset row names a file that
\* exists, and no two remaining rows name the same file.
C29_RowsAndFilesAgree ==
    /\ \A i \in DOMAIN asset_rows : asset_rows[i].file_path \in files
    /\ \A i, j \in DOMAIN asset_rows :
          asset_rows[i].file_path = asset_rows[j].file_path => i = j

\* ---------------------------------------------------------------------------
\* C30: for a role with both a neutral and a talking pose in FFmpegRenderer's
\* graph, at every time t exactly one of the role's two overlays is enabled:
\* the talking one when t lies inside one of the role's windows, the neutral
\* one otherwise, also at a boundary shared by two consecutive windows of the
\* role.
\* An enable expression switches its filter on at t when its value is not 0:
\* the condition is the sum of its between() terms, each 1 or 0.
CondValue(cond, t) ==
    Cardinality({i \in DOMAIN cond :
                    FLeq(Parse(cond[i].lo), t) /\ FLeq(t, Parse(cond[i].hi))})
EnabledAt(enable, t) ==
    CASE enable.op = "cond" -> CondValue(enable.cond, t) # 0
      [] enable.op = "not" -> 1 - CondValue(enable.cond, t) # 0
      [] OTHER -> TRUE
NeutralStages == {i \in OverlayStages : cmd.filter_complex[i].enable.op = "not"}
TalkingStageOf(i) ==
    CHOOSE j \in OverlayStages :
        /\ cmd.filter_complex[j].enable.op = "cond"
        /\ RoleOfOverlay(cmd.filter_complex[j]) = RoleOfOverlay(cmd.filter_complex[i])
C30_ExactlyOnePoseEnabled ==
    (CommandBuilt /\ cmd.by = "FFmpegRenderer") =>
        \A i \in NeutralStages : \A t \in Instants :
            LET neutral == cmd.filter_complex[i]
                talking == cmd.filter_complex[TalkingStageOf(i)]
                role == RoleOfOverlay(neutral)
            IN  /\ EnabledAt(talking.enable, t) # EnabledAt(neutral.enable, t)
                /\ EnabledAt(talking.enable, t) <=> InWindowOf(role, t)

====
